---------------------------- MODULE Spec2Model ----------------------------
(***************************************************************************)
(* Snapcore charge analytics: the CSV normaliser (csv_processor.py) and    *)
(* the efficiency engine (efficiency_calculator.py) as state machines.     *)
(*                                                                         *)
(* Text is a sequence of one-character strings, so that the scalar         *)
(* parsers are modelled by what they do to the characters.  A parsed       *)
(* number is an exact decimal [nan, m, s] standing for m / 10^s, kept      *)
(* normalised (no trailing zero in m, zero is m = 0, s = 0), so that       *)
(* equality of records is equality of values.                              *)
(***************************************************************************)
EXTENDS Integers, Sequences, FiniteSets, TLC

VARIABLES
    parser,     \* which scalar parser ran last ("none" before any)
    text,       \* the raw cell text handed to the scalar parser
    parsed,     \* what the scalar parser returned for it
    source,     \* the source handed to process_csv
    result,     \* the ProcessingResult process_csv returned
    stages,     \* the pipeline stages process_csv called, in order
    cleaned,    \* a table and what one and two passes of _clean_data made of it
    df,         \* the table handed to the engine
    analysis,   \* the outcome of analyze_efficiency
    metric,     \* the arguments and outcome of calculate_efficiency_metrics
    trends,     \* what analyze_temporal_trends returned
    pattern,    \* what analyze_charging_patterns returned
    category,   \* the arguments and result of categorize_charger_type
    savings,    \* a built analysis and what _annual_savings_potential made of it
    requests,   \* the upload requests: position, locals and response of each
    files,      \* the temporary directory: path |-> the request that wrote it
    calls,      \* the calls the requests made on the shared services, in order
    heap,       \* the DataFrame objects: reference |-> table, owner, first value
    cache,      \* efficiency_calculator._analysis_cache
    invocations \* the service calls in progress and finished, with their locals

parserVars == <<parser, text, parsed>>
csvVars == <<source, result, stages, cleaned>>
engineVars == <<df, analysis, metric, trends, pattern, category, savings>>
serviceVars == <<heap, cache, invocations>>

routerVars == <<requests, files, calls, heap, cache, invocations>>

vars == <<parser, text, parsed, source, result, stages, cleaned, df, analysis,
          metric, trends, pattern, category, savings, requests, files, calls, heap, cache, invocations>>

-----------------------------------------------------------------------------
(* Characters and text helpers *)

Digits == {"0", "1", "2", "3", "4", "5", "6", "7", "8", "9"}

DigitVal(c) ==
    CASE c = "0" -> 0 [] c = "1" -> 1 [] c = "2" -> 2 [] c = "3" -> 3
      [] c = "4" -> 4 [] c = "5" -> 5 [] c = "6" -> 6 [] c = "7" -> 7
      [] c = "8" -> 8 [] c = "9" -> 9

RECURSIVE Pow10(_)
Pow10(n) == IF n <= 0 THEN 1 ELSE 10 * Pow10(n - 1)

AllDigits(s) == \A i \in 1..Len(s) : s[i] \in Digits

RECURSIVE DigitsVal(_)
DigitsVal(s) ==
    IF s = <<>> THEN 0
    ELSE DigitsVal(SubSeq(s, 1, Len(s) - 1)) * 10 + DigitVal(s[Len(s)])

HasChar(s, c) == \E i \in 1..Len(s) : s[i] = c

\* index of the first character of s that lies in cs, 0 when there is none
FirstIn(s, cs) ==
    IF \E i \in 1..Len(s) : s[i] \in cs
    THEN CHOOSE i \in 1..Len(s) : s[i] \in cs /\ \A j \in 1..(i - 1) : s[j] \notin cs
    ELSE 0

\* str.replace / re.sub of single characters: those of s outside keep are dropped
RECURSIVE KeepOnly(_, _)
KeepOnly(s, keep) ==
    IF s = <<>> THEN <<>>
    ELSE (IF Head(s) \in keep THEN <<Head(s)>> ELSE <<>>) \o KeepOnly(Tail(s), keep)

ReplaceChar(s, old, new) == [i \in 1..Len(s) |-> IF s[i] = old THEN new ELSE s[i]]

-----------------------------------------------------------------------------
(* Exact decimals *)

NaN == [nan |-> TRUE, m |-> 0, s |-> 0]

RECURSIVE Normalise(_, _)
Normalise(m, s) ==
    IF m = 0 THEN [nan |-> FALSE, m |-> 0, s |-> 0]
    ELSE IF m % 10 = 0 THEN Normalise(m \div 10, s - 1)
    ELSE [nan |-> FALSE, m |-> m, s |-> s]

Dec(m, s) == Normalise(m, s)

IsNum(x) == ~x.nan
DecPos(x) == IsNum(x) /\ x.m > 0        \* x > 0, false for NaN
DecNonNeg(x) == IsNum(x) /\ x.m >= 0    \* x >= 0, false for NaN

Max2(a, b) == IF a >= b THEN a ELSE b

\* m of x when written with scale k >= x.s
AtScale(x, k) == x.m * Pow10(k - x.s)

DecAdd(x, y) ==
    IF x.nan \/ y.nan THEN NaN
    ELSE LET k == Max2(x.s, y.s) IN Normalise(AtScale(x, k) + AtScale(y, k), k)

DecMulInt(x, n) == IF x.nan THEN NaN ELSE Normalise(x.m * n, x.s)

DecLess(x, y) ==
    IsNum(x) /\ IsNum(y) /\
    LET k == Max2(x.s, y.s) IN AtScale(x, k) < AtScale(y, k)

-----------------------------------------------------------------------------
(* pd.to_numeric(errors="coerce") and float() on one text value: an optional *)
(* sign, digits with at most one point and at least one digit, an optional  *)
(* exponent; anything else is a missing value.                              *)

Unsigned(s) == IF s # <<>> /\ Head(s) \in {"-", "+"} THEN Tail(s) ELSE s

ToNumeric(s) ==
    LET neg  == s # <<>> /\ Head(s) = "-"
        body == Unsigned(s)
        epos == FirstIn(body, {"e", "E"})
        mant == IF epos = 0 THEN body ELSE SubSeq(body, 1, epos - 1)
        expo == IF epos = 0 THEN <<>> ELSE SubSeq(body, epos + 1, Len(body))
        eneg == expo # <<>> /\ Head(expo) = "-"
        edig == Unsigned(expo)
        dpos == FirstIn(mant, {"."})
        ip   == IF dpos = 0 THEN mant ELSE SubSeq(mant, 1, dpos - 1)
        fp   == IF dpos = 0 THEN <<>> ELSE SubSeq(mant, dpos + 1, Len(mant))
        ok   == /\ AllDigits(ip) /\ AllDigits(fp)
                /\ Len(ip) + Len(fp) >= 1
                /\ epos = 0 \/ (edig # <<>> /\ AllDigits(edig))
        mag  == DigitsVal(ip \o fp)
        ev   == IF eneg THEN 0 - DigitsVal(edig) ELSE DigitsVal(edig)
    IN  IF ok THEN Normalise(IF neg THEN 0 - mag ELSE mag, Len(fp) - ev) ELSE NaN

\* the characters _to_number keeps: [^\d\.\-eE,] is removed
NumberKeep == Digits \cup {".", "-", "e", "E", ","}

\* the characters _to_currency keeps: [^\d,.\-] is removed
CurrencyKeep == Digits \cup {",", ".", "-"}

\* the comma rule of _to_number with the separators the wrong way round
to_number_comma_decimal(s) ==
    LET k == KeepOnly(s, NumberKeep)
        has_both == HasChar(k, ",") /\ HasChar(k, ".")
    IN  ToNumeric(IF has_both
                  THEN ReplaceChar(KeepOnly(k, NumberKeep \ {"."}), ",", ".")
                  ELSE KeepOnly(k, NumberKeep \ {","}))

to_number(s) ==
    LET k == KeepOnly(s, NumberKeep)
        has_both == HasChar(k, ",") /\ HasChar(k, ".")
        stripped == IF has_both THEN KeepOnly(k, NumberKeep \ {","}) ELSE k
        dotted == IF has_both THEN stripped ELSE ReplaceChar(stripped, ",", ".")
    IN  ToNumeric(dotted)

to_currency(s) == to_number(KeepOnly(s, CurrencyKeep))

-----------------------------------------------------------------------------
(* str.strip, str.lower and the pieces of the regular expressions of        *)
(* _duration_to_minutes                                                     *)

Whitespace == {" ", "\t", "\n", "\r"}

UpperLetters == <<"A", "B", "C", "D", "E", "F", "G", "H", "I", "J", "K", "L", "M",
                  "N", "O", "P", "Q", "R", "S", "T", "U", "V", "W", "X", "Y", "Z">>
LowerLetters == <<"a", "b", "c", "d", "e", "f", "g", "h", "i", "j", "k", "l", "m",
                  "n", "o", "p", "q", "r", "s", "t", "u", "v", "w", "x", "y", "z">>

LowerChar(c) ==
    IF \E i \in 1..26 : UpperLetters[i] = c
    THEN LowerLetters[CHOOSE i \in 1..26 : UpperLetters[i] = c]
    ELSE c

Lower(s) == [i \in 1..Len(s) |-> LowerChar(s[i])]

\* \w of the regular expressions
WordChars == Digits \cup {"_"} \cup {UpperLetters[i] : i \in 1..26}
                    \cup {LowerLetters[i] : i \in 1..26}

RECURSIVE LStrip(_)
LStrip(s) == IF s # <<>> /\ Head(s) \in Whitespace THEN LStrip(Tail(s)) ELSE s

RECURSIVE RStrip(_)
RStrip(s) ==
    IF s # <<>> /\ s[Len(s)] \in Whitespace THEN RStrip(SubSeq(s, 1, Len(s) - 1)) ELSE s

Strip(s) == RStrip(LStrip(s))

\* the last index of the run of characters of cs that starts at i (i - 1: no run)
RECURSIVE RunEnd(_, _, _)
RunEnd(s, i, cs) ==
    IF i <= Len(s) /\ s[i] \in cs THEN RunEnd(s, i + 1, cs) ELSE i - 1

\* where \d+(?:\.\d+)? matched at i ends, 0 when it does not match at i
NumEnd(s, i) ==
    IF i > Len(s) \/ s[i] \notin Digits THEN 0
    ELSE LET a == RunEnd(s, i, Digits)
         IN  IF a + 2 <= Len(s) /\ s[a + 1] = "." /\ s[a + 2] \in Digits
             THEN RunEnd(s, a + 2, Digits)
             ELSE a

\* the index of the unit letter c when (\d+(?:\.\d+)?)\s*c matches at i, else 0
UnitAt(s, i, c) ==
    LET e == NumEnd(s, i)
        k == RunEnd(s, e + 1, Whitespace) + 1
    IN  IF e > 0 /\ k <= Len(s) /\ s[k] = c THEN k ELSE 0

\* \b after the word character at index k
BoundaryAfter(s, k) == k = Len(s) \/ s[k + 1] \notin WordChars

\* (\d+(?:\.\d+)?)\s*m(in)?\b matches at i
MinutesAt(s, i) ==
    LET k == UnitAt(s, i, "m")
    IN  /\ k > 0
        /\ \/ (k + 2 <= Len(s) /\ s[k + 1] = "i" /\ s[k + 2] = "n"
                  /\ BoundaryAfter(s, k + 2))
           \/ BoundaryAfter(s, k)

\* re.search: the leftmost index at which the pattern matches, 0 when none
SearchUnit(s, c) ==
    IF \E i \in 1..Len(s) : UnitAt(s, i, c) > 0
    THEN CHOOSE i \in 1..Len(s) :
            UnitAt(s, i, c) > 0 /\ \A j \in 1..(i - 1) : UnitAt(s, j, c) = 0
    ELSE 0

SearchMinutes(s) ==
    IF \E i \in 1..Len(s) : MinutesAt(s, i)
    THEN CHOOSE i \in 1..Len(s) : MinutesAt(s, i) /\ \A j \in 1..(i - 1) : ~MinutesAt(s, j)
    ELSE 0

\* group(1) of a match at i, as float() reads it
Group1(s, i) == ToNumeric(SubSeq(s, i, NumEnd(s, i)))

\* int(h): surrounding whitespace, a sign, digits; anything else raises
PyIntOk(h) == LET u == Unsigned(Strip(h)) IN u # <<>> /\ AllDigits(u)
PyInt(h) ==
    LET t == Strip(h)
        v == DigitsVal(Unsigned(t))
    IN  IF t # <<>> /\ Head(t) = "-" THEN 0 - v ELSE v

\* a raw cell that holds no text at all (NaN in the DataFrame)
Missing == <<"NaN">>

\* Series.astype(str) of one cell
AsStr(x) == IF x = Missing THEN <<"n", "a", "n">> ELSE x

\* parse_one with the m rule tried before the h rule
parse_one_minutes_first(x) ==
    IF x = Missing THEN NaN
    ELSE LET s == Lower(Strip(x))
             c == FirstIn(s, {":"})
             rest == SubSeq(s, c + 1, Len(s))
             c2 == FirstIn(rest, {":"})
             m == IF c2 = 0 THEN rest ELSE SubSeq(rest, 1, c2 - 1)
             hi == SearchUnit(s, "h")
             mi == SearchUnit(s, "m")
             bi == SearchMinutes(s)
         IN  IF c > 0 /\ PyIntOk(SubSeq(s, 1, c - 1))
             THEN Dec(PyInt(SubSeq(s, 1, c - 1)) * 60 + DigitsVal(KeepOnly(m, Digits)), 0)
             ELSE IF bi > 0 THEN Group1(s, bi)
             ELSE IF hi > 0
             THEN DecAdd(DecMulInt(Group1(s, hi), 60),
                         IF mi > 0 THEN Group1(s, mi) ELSE Dec(0, 0))
             ELSE ToNumeric(s)

\* parse_one of _duration_to_minutes: None is the missing value NaN
parse_one(x) ==
    IF x = Missing THEN NaN
    ELSE LET s == Lower(Strip(x))
             c == FirstIn(s, {":"})
             h == SubSeq(s, 1, c - 1)
             rest == SubSeq(s, c + 1, Len(s))
             c2 == FirstIn(rest, {":"})
             m == IF c2 = 0 THEN rest ELSE SubSeq(rest, 1, c2 - 1)
             hi == SearchUnit(s, "h")
             mi == SearchUnit(s, "m")
             bi == SearchMinutes(s)
         IN  IF c > 0 /\ PyIntOk(h)
             THEN Dec(PyInt(h) * 60 + DigitsVal(KeepOnly(m, Digits)), 0)
             ELSE IF hi > 0
             THEN DecAdd(DecMulInt(Group1(s, hi), 60),
                         IF mi > 0 THEN Group1(s, mi) ELSE Dec(0, 0))
             ELSE IF bi > 0 THEN Group1(s, bi)
             ELSE ToNumeric(s)

\* Series-level names of the parsers: each applies the cell function to AsStr
_to_number(x) == to_number(AsStr(x))
_to_currency(x) == to_currency(AsStr(x))
_duration_to_minutes(x) == parse_one(x)

-----------------------------------------------------------------------------
(* The scalar parsers as operations: a cell text goes in, a value comes out. *)
(* The parsers are static and keep nothing between calls, so a behaviour is  *)
(* one call from the idle state.                                             *)

MaxNumLen == 3
MaxDurLen == 4

Strings(chars, n) == UNION {[1..k -> chars] : k \in 0..n}

NumChars == {"1", "2", ",", ".", "-", "$"}
DurChars == {"1", "5", ":", "h", "m", "-", "."}

T_1c234d56 == <<"1", ",", "2", "3", "4", ".", "5", "6">>    \* "1,234.56"
T_12c5     == <<"1", "2", ",", "5">>                        \* "12,5"
T_1d234c56 == <<"1", ".", "2", "3", "4", ",", "5", "6">>    \* "1.234,56"
T_1c2c3    == <<"1", ",", "2", ",", "3">>                   \* "1,2,3"
T_abc      == <<"a", "b", "c">>                             \* "abc"
T_1e2      == <<"1", "e", "2">>                             \* "1e2"
T_usd      == <<"$", "1", ",", "0", "0", "0", ".", "5", "0">> \* "$1,000.50"

NumberInputs ==
    Strings(NumChars, MaxNumLen)
        \cup {T_1c234d56, T_12c5, T_1d234c56, T_1c2c3, T_abc, T_1e2, T_usd, Missing}

T_1_30   == <<"1", ":", "3", "0">>                  \* "1:30"
T_1h30m  == <<"1", "h", " ", "3", "0", "m">>        \* "1h 30m"
T_90m    == <<"9", "0", "m">>                       \* "90m"
T_90     == <<"9", "0">>                            \* "90"
T_2h     == <<"2", "h">>                            \* "2h"
T_1d5h   == <<"1", ".", "5", "h">>                  \* "1.5h"
T_90min  == <<"9", "0", " ", "m", "i", "n">>        \* "90 min"
T_90mins == <<"9", "0", " ", "m", "i", "n", "s">>   \* "90 mins"
T_1_30h  == <<"1", ":", "3", "0", "h">>             \* "1:30h"
T_30m1h  == <<"3", "0", "m", " ", "1", "h">>        \* "30m 1h"
T_neg90  == <<"-", "9", "0">>                       \* "-90"
T_neg1_30 == <<"-", "1", ":", "3", "0">>            \* "-1:30"
T_Up1H   == <<" ", "1", "H", " ", "5", "M", " ">>   \* " 1H 5M "

DurationInputs ==
    Strings(DurChars, MaxDurLen)
        \cup {T_1_30, T_1h30m, T_90m, T_90, T_2h, T_1d5h, T_90min, T_90mins,
              T_1_30h, T_30m1h, T_neg90, T_neg1_30, T_Up1H, T_abc, Missing}

NoSource == [kind |-> "none"]
NoResult == [returned |-> FALSE]
NoTable == [columns |-> <<>>, rows |-> <<>>]
NoAnalysis == [outcome |-> "none"]
NoMetric == [outcome |-> "none"]
NoTrends == [called |-> FALSE]
NoPattern == [called |-> FALSE]
NoCategory == [called |-> FALSE]
NoSavings == [called |-> FALSE]
NoClean == [called |-> FALSE]

InitParsers ==
    /\ parser = "none" /\ text = <<>> /\ parsed = NaN
    /\ source = NoSource /\ result = NoResult /\ stages = <<>> /\ cleaned = NoClean
    /\ df = NoTable /\ analysis = NoAnalysis /\ metric = NoMetric /\ trends = NoTrends
    /\ pattern = NoPattern /\ category = NoCategory /\ savings = NoSavings
    /\ requests = <<>> /\ files = <<>> /\ calls = <<>>
    /\ heap = <<>> /\ cache = <<>> /\ invocations = <<>>

ParseNumber ==
    \E x \in NumberInputs :
        /\ parser = "none"
        /\ parser' = "_to_number" /\ text' = x /\ parsed' = _to_number(x)
        /\ UNCHANGED <<csvVars, engineVars, routerVars>>

ParseCurrency ==
    \E x \in NumberInputs :
        /\ parser = "none"
        /\ parser' = "_to_currency" /\ text' = x /\ parsed' = _to_currency(x)
        /\ UNCHANGED <<csvVars, engineVars, routerVars>>

ParseDuration ==
    \E x \in DurationInputs :
        /\ parser = "none"
        /\ parser' = "_duration_to_minutes" /\ text' = x
        /\ parsed' = _duration_to_minutes(x)
        /\ UNCHANGED <<csvVars, engineVars, routerVars>>

NextParsers == ParseNumber \/ ParseCurrency \/ ParseDuration

SpecParsers == InitParsers /\ [][NextParsers]_vars

-----------------------------------------------------------------------------
(* C8: the number parser returns 1234.56 for "1,234.56" and 12.5 for       *)
(* "12,5"; a value with both a comma and a dot has its commas removed as    *)
(* thousands separators, so "1.234,56" gives 1.23456; a value with commas   *)
(* only has them read as the decimal point; an unparseable value gives the  *)
(* missing value NaN.                                                       *)
C8_NumberParser ==
    parser = "_to_number" =>
        LET k == KeepOnly(AsStr(text), NumberKeep)
            both == HasChar(k, ",") /\ HasChar(k, ".")
        IN  /\ text = T_1c234d56 => parsed = Dec(123456, 2)
            /\ text = T_12c5 => parsed = Dec(125, 1)
            /\ text = T_1d234c56 => parsed = Dec(123456, 5)
            /\ text \in {T_abc, T_1c2c3, Missing} => parsed = NaN
            /\ both => parsed = ToNumeric(KeepOnly(k, NumberKeep \ {","}))
            /\ ~both => parsed = ToNumeric(ReplaceChar(k, ",", "."))

\* C8 witness: the parser has run on a value with both separators and on one
\* with a comma only
C8_Witness ==
    /\ parser = "_to_number" /\ text = T_1d234c56 /\ IsNum(parsed)

\* C8 as stated: "1.234,56" parses to 1234.56
C8_AsStated ==
    parser = "_to_number" =>
        /\ text = T_1c234d56 => parsed = Dec(123456, 2)
        /\ text = T_12c5 => parsed = Dec(125, 1)
        /\ text = T_1d234c56 => parsed = Dec(123456, 2)

-----------------------------------------------------------------------------
(* The four rules of the duration parser, each as "does it match" and "what *)
(* does it give", stated apart from the order in which parse_one tries them *)

ColonHours(s) == SubSeq(s, 1, FirstIn(s, {":"}) - 1)
ColonMinutes(s) ==
    LET rest == SubSeq(s, FirstIn(s, {":"}) + 1, Len(s))
        c2 == FirstIn(rest, {":"})
    IN  KeepOnly(IF c2 = 0 THEN rest ELSE SubSeq(rest, 1, c2 - 1), Digits)

RuleMatches(s, r) ==
    CASE r = 1 -> HasChar(s, ":") /\ PyIntOk(ColonHours(s))
      [] r = 2 -> \E i \in 1..Len(s) : UnitAt(s, i, "h") > 0
      [] r = 3 -> \E i \in 1..Len(s) : MinutesAt(s, i)
      [] r = 4 -> IsNum(ToNumeric(s))

RuleValue(s, r) ==
    CASE r = 1 -> Dec(PyInt(ColonHours(s)) * 60 + DigitsVal(ColonMinutes(s)), 0)
      [] r = 2 -> DecAdd(DecMulInt(Group1(s, SearchUnit(s, "h")), 60),
                         IF SearchUnit(s, "m") > 0
                         THEN Group1(s, SearchUnit(s, "m")) ELSE Dec(0, 0))
      [] r = 3 -> Group1(s, SearchMinutes(s))
      [] r = 4 -> ToNumeric(s)

(* C9: the duration parser gives the value of the first of its four rules   *)
(* (colon form, h-suffixed hours with optional minutes, m/min-suffixed      *)
(* minutes, plain number) that matches and a missing value when none does;  *)
(* "1:30", "1h 30m", "90m" and "90" give 90, "2h" gives 120, "1.5h" gives 90 *)
C9_DurationRules ==
    (parser = "_duration_to_minutes" /\ text # Missing) =>
        LET s == Lower(Strip(text))
            hit == {r \in 1..4 : RuleMatches(s, r)}
        IN  /\ text \in {T_1_30, T_1h30m, T_90m, T_90, T_1d5h} => parsed = Dec(90, 0)
            /\ text = T_2h => parsed = Dec(120, 0)
            /\ hit = {} => parsed = NaN
            /\ hit # {} =>
                 parsed = RuleValue(s, CHOOSE r \in hit : \A q \in hit : r <= q)

\* C9 witness: a text that two rules match (hours and minutes) has been parsed
\* by the earlier one
C9_Witness ==
    /\ parser = "_duration_to_minutes" /\ text = T_1h30m
    /\ RuleMatches(text, 2) /\ RuleMatches(text, 3)
    /\ parsed = Dec(90, 0)

-----------------------------------------------------------------------------
(* Column headers.  A header is named by its text; HeaderText spells it out *)
(* so that the substring and pattern tests read its characters.             *)

HeaderText(h) ==
    CASE h = "Date" -> <<"D", "a", "t", "e">>
      [] h = "Energy Added (kWh)" ->
            <<"E", "n", "e", "r", "g", "y", " ", "A", "d", "d", "e", "d", " ",
              "(", "k", "W", "h", ")">>
      [] h = "Cost" -> <<"C", "o", "s", "t">>
      [] h = "Starting SOC" -> <<"S", "t", "a", "r", "t", "i", "n", "g", " ", "S", "O", "C">>
      [] h = "Ending SOC" -> <<"E", "n", "d", "i", "n", "g", " ", "S", "O", "C">>
      [] h = "Charging Time" ->
            <<"C", "h", "a", "r", "g", "i", "n", "g", " ", "T", "i", "m", "e">>
      [] h = "Location" -> <<"L", "o", "c", "a", "t", "i", "o", "n">>
      [] h = "Energy Delivered (kWh)" ->
            <<"E", "n", "e", "r", "g", "y", " ", "D", "e", "l", "i", "v", "e", "r", "e", "d",
              " ", "(", "k", "W", "h", ")">>
      [] h = "Charge Cost" -> <<"C", "h", "a", "r", "g", "e", " ", "C", "o", "s", "t">>
      [] h = "kWh" -> <<"k", "W", "h">>
      [] h = "Start %" -> <<"S", "t", "a", "r", "t", " ", "%">>
      [] h = "End %" -> <<"E", "n", "d", " ", "%">>
      [] h = "Price" -> <<"P", "r", "i", "c", "e">>
      [] h = "Charge" -> <<"C", "h", "a", "r", "g", "e">>
      [] h = "Duration" -> <<"D", "u", "r", "a", "t", "i", "o", "n">>
      [] h = "Charger Type" -> <<"C", "h", "a", "r", "g", "e", "r", " ", "T", "y", "p", "e">>
      [] h = "Session Date" ->
            <<"S", "e", "s", "s", "i", "o", "n", " ", "D", "a", "t", "e">>
      [] h = "Max Power" -> <<"M", "a", "x", " ", "P", "o", "w", "e", "r">>
      [] h = "Notes" -> <<"N", "o", "t", "e", "s">>
      [] h = "Energy Cost" -> <<"E", "n", "e", "r", "g", "y", " ", "C", "o", "s", "t">>

\* re.search(pat, s, re.IGNORECASE) for a pattern of literal characters, "\\s*"
\* and "\\b": whether pat, from its token j on, matches s at index i
IsBoundary(s, i) ==
    (i - 1 >= 1 /\ s[i - 1] \in WordChars) # (i <= Len(s) /\ s[i] \in WordChars)

RECURSIVE MatchHere(_, _, _, _)
MatchHere(s, i, pat, j) ==
    IF j > Len(pat) THEN TRUE
    ELSE IF pat[j] = "\\s*"
         THEN MatchHere(s, RunEnd(s, i, Whitespace) + 1, pat, j + 1)
    ELSE IF pat[j] = "\\b"
         THEN IsBoundary(s, i) /\ MatchHere(s, i, pat, j + 1)
    ELSE IF pat[j] = "\\d"
         THEN i <= Len(s) /\ s[i] \in Digits /\ MatchHere(s, i + 1, pat, j + 1)
    ELSE IF pat[j] = "e?"
         THEN \/ i <= Len(s) /\ LowerChar(s[i]) = "e" /\ MatchHere(s, i + 1, pat, j + 1)
              \/ MatchHere(s, i, pat, j + 1)
    ELSE i <= Len(s) /\ LowerChar(s[i]) = pat[j] /\ MatchHere(s, i + 1, pat, j + 1)

ReSearch(pat, s) == \E i \in 1..(Len(s) + 1) : MatchHere(s, i, pat, 1)

\* k in c.lower()
InLower(k, h) == ReSearch(k, Lower(HeaderText(h)))

P_kwh == <<"k", "w", "h">>
P_energy == <<"e", "n", "e", "r", "g", "y">>
P_delivered == <<"d", "e", "l", "i", "v", "e", "r", "e", "d">>
P_added == <<"a", "d", "d", "e", "d">>
P_cost == <<"c", "o", "s", "t">>
P_price == <<"p", "r", "i", "c", "e">>
P_fee == <<"f", "e", "e">>
P_charge == <<"c", "h", "a", "r", "g", "e">>

EnergyWords == {P_kwh, P_energy, P_delivered, P_added}
CostWords == {P_cost, P_price, P_fee, P_charge}

SeqRange(q) == {q[i] : i \in 1..Len(q)}

\* the element of a one-element set: Only({F(x) : x \in {e}}) is F(e) with e
\* worked out once
Only(S) == CHOOSE x \in S : TRUE

Raise(e) == [ok |-> FALSE, err |-> e]
Return(v) == [ok |-> TRUE, val |-> v]

\* _detect_format with the teslafi rule tried before the tesla_mobile rule
_detect_format_teslafi_first(columns) ==
    LET cols == SeqRange(columns)
    IN  IF {"kWh", "Start %", "End %"} \subseteq cols THEN Return("teslafi")
        ELSE IF {"Energy Added (kWh)", "Starting SOC"} \subseteq cols
             THEN Return("tesla_mobile")
        ELSE IF {"Energy Delivered (kWh)", "Charge Cost"} \subseteq cols
             THEN Return("tesla_web")
        ELSE IF (\E c \in cols : \E k \in EnergyWords : InLower(k, c))
                /\ (\E c \in cols : \E k \in CostWords : InLower(k, c))
             THEN Return("generic")
        ELSE Raise("Unrecognized CSV format; headers do not match expected patterns")

_detect_format(columns) ==
    LET cols == SeqRange(columns)
        energy == \E c \in cols : \E k \in EnergyWords : InLower(k, c)
        cost == \E c \in cols : \E k \in CostWords : InLower(k, c)
    IN  IF {"Energy Added (kWh)", "Starting SOC"} \subseteq cols THEN Return("tesla_mobile")
        ELSE IF {"Energy Delivered (kWh)", "Charge Cost"} \subseteq cols
             THEN Return("tesla_web")
        ELSE IF {"kWh", "Start %", "End %"} \subseteq cols THEN Return("teslafi")
        ELSE IF energy /\ cost THEN Return("generic")
        ELSE Raise("Unrecognized CSV format; headers do not match expected patterns")

\* COLUMN_MAPPINGS[fmt].get(h, h)
COLUMN_MAPPINGS(fmt, h) ==
    CASE fmt = "tesla_mobile" ->
           (CASE h = "Date" -> "session_date"
              [] h = "Location" -> "location_name"
              [] h = "Charger Type" -> "charger_type"
              [] h = "Energy Added (kWh)" -> "energy_added_kwh"
              [] h = "Charging Time" -> "charging_duration"
              [] h = "Cost" -> "total_cost"
              [] h = "Starting SOC" -> "start_soc_percent"
              [] h = "Ending SOC" -> "end_soc_percent"
              [] OTHER -> h)
      [] fmt = "tesla_web" ->
           (CASE h = "Date" -> "session_date"
              [] h = "Time" -> "session_time"
              [] h = "Location Name" -> "location_name"
              [] h = "Address" -> "location_address"
              [] h = "Charger Type" -> "charger_type"
              [] h = "Connector Type" -> "connector_type"
              [] h = "Energy Delivered (kWh)" -> "energy_added_kwh"
              [] h = "Charging Time (HH:MM)" -> "charging_duration"
              [] h = "Charge Cost" -> "total_cost"
              [] h = "Vehicle" -> "vehicle_name"
              [] OTHER -> h)
      [] fmt = "teslafi" ->
           (CASE h = "Date" -> "session_date"
              [] h = "Start Time" -> "start_time"
              [] h = "End Time" -> "end_time"
              [] h = "Location" -> "location_name"
              [] h = "Charger" -> "charger_type"
              [] h = "kWh" -> "energy_added_kwh"
              [] h = "Cost" -> "total_cost"
              [] h = "Start %" -> "start_soc_percent"
              [] h = "End %" -> "end_soc_percent"
              [] h = "Max Power" -> "max_power_kw"
              [] h = "Avg Power" -> "avg_power_kw"
              [] OTHER -> h)

\* the rule table of _fuzzy_map: each target with its patterns in order; a
\* pattern is the set of its alternatives
FuzzyRules ==
    << [target |-> "energy_added_kwh",
        patterns |-> << {P_kwh}, {P_energy}, {P_delivered}, {P_added} >>],
       [target |-> "total_cost",
        patterns |-> << {P_cost}, {P_price}, {P_fee}, {P_charge \o <<"\\s*">> \o P_cost} >>],
       [target |-> "session_date",
        patterns |-> << {<<"\\b", "d", "a", "t", "e", "\\b">>},
                        {<<"s", "e", "s", "s", "i", "o", "n", "\\s*", "d", "a", "t", "e">>},
                        {<<"\\b", "t", "i", "m", "e", "\\b">>} >>],
       [target |-> "start_soc_percent",
        patterns |-> << {<<"s", "t", "a", "r", "t", "\\s*", "%">>,
                         <<"s", "t", "a", "r", "t", "i", "n", "g", "\\s*", "s", "o", "c">>} >>],
       [target |-> "end_soc_percent",
        patterns |-> << {<<"e", "n", "d", "\\s*", "%">>,
                         <<"e", "n", "d", "i", "n", "g", "\\s*", "s", "o", "c">>} >>],
       [target |-> "charging_duration",
        patterns |-> << {<<"d", "u", "r", "a", "t", "i", "o", "n">>,
                         <<"c", "h", "a", "r", "g", "i", "n", "g", "\\s*", "t", "i", "m", "e">>} >>],
       [target |-> "location_name",
        patterns |-> << {<<"l", "o", "c", "a", "t", "i", "o", "n", "\\s*", "n", "a", "m", "e">>,
                         <<"l", "o", "c", "a", "t", "i", "o", "n">>} >> ] >>

\* re.search(pat, c, re.IGNORECASE) and c not in mapping
Claims(pat, c, mapping) ==
    c \notin DOMAIN mapping /\ \E alt \in pat : ReSearch(alt, HeaderText(c))

\* first_match without the test "c not in mapping"
first_match_claimed_too(patterns, columns, mapping) ==
    LET fits(p, c) == \E alt \in patterns[p] : ReSearch(alt, HeaderText(c))
        hits == {p \in 1..Len(patterns) : \E i \in 1..Len(columns) : fits(p, columns[i])}
    IN  IF hits = {} THEN ""
        ELSE LET p == CHOOSE p \in hits : \A q \in hits : p <= q
                 i == CHOOSE i \in 1..Len(columns) :
                        /\ fits(p, columns[i])
                        /\ \A j \in 1..(i - 1) : ~fits(p, columns[j])
             IN  columns[i]

\* first_match: the first pattern some unclaimed column matches, and for it the
\* first such column; "" is None
first_match(patterns, columns, mapping) ==
    LET hits == {p \in 1..Len(patterns) :
                    \E i \in 1..Len(columns) : Claims(patterns[p], columns[i], mapping)}
    IN  IF hits = {} THEN ""
        ELSE LET p == CHOOSE p \in hits : \A q \in hits : p <= q
                 i == CHOOSE i \in 1..Len(columns) :
                        /\ Claims(patterns[p], columns[i], mapping)
                        /\ \A j \in 1..(i - 1) : ~Claims(patterns[p], columns[j], mapping)
             IN  columns[i]

Extend(mapping, c, target) ==
    [x \in DOMAIN mapping \cup {c} |-> IF x = c THEN target ELSE mapping[x]]

\* the mapping _fuzzy_map builds, rule k onwards
RECURSIVE FuzzyFrom(_, _, _)
FuzzyFrom(k, columns, mapping) ==
    IF k > Len(FuzzyRules) THEN mapping
    ELSE Only({FuzzyFrom(k + 1, columns,
                         IF c # "" THEN Extend(mapping, c, FuzzyRules[k].target)
                         ELSE mapping) :
                 c \in {first_match(FuzzyRules[k].patterns, columns, mapping)}})

EmptyMapping == [x \in {} |-> ""]

_fuzzy_map(columns) == FuzzyFrom(1, columns, EmptyMapping)

\* the new name of every column: df.rename(columns=...)
Renaming(columns, fmt) ==
    IF fmt \in {"tesla_mobile", "tesla_web", "teslafi"}
    THEN [h \in SeqRange(columns) |-> COLUMN_MAPPINGS(fmt, h)]
    ELSE Only({[h \in SeqRange(columns) |-> IF h \in DOMAIN mapping THEN mapping[h] ELSE h] :
                 mapping \in {_fuzzy_map(columns)}})

\* _normalize_columns: the table with its columns renamed
Renamed(table, new) ==
    LET old(c) == CHOOSE h \in SeqRange(table.columns) : new[h] = c
    IN  [columns |-> [i \in 1..Len(table.columns) |-> new[table.columns[i]]],
         rows |-> [r \in 1..Len(table.rows) |->
                     [c \in {new[h] : h \in SeqRange(table.columns)} |->
                         table.rows[r][old(c)]]]]

_normalize_columns(table, fmt) ==
    Only({Renamed(table, new) : new \in {Renaming(table.columns, fmt)}})

\* one entry of the issues list: the message and what it names
Issue(msg, detail) == [msg |-> msg, detail |-> detail]

REQUIRED_COLUMNS == <<"session_date", "energy_added_kwh", "total_cost">>

\* _validate_structure with only the first missing column reported
_validate_structure_first_missing(table) ==
    LET present(c) == c \in SeqRange(table.columns)
        absent(c) == ~present(c)
        missing == SelectSeq(REQUIRED_COLUMNS, absent)
    IN  IF missing # <<>>
        THEN [ok |-> FALSE,
              issues |-> <<Issue("Missing required columns", <<missing[1]>>)>>]
        ELSE IF Len(table.rows) = 0
        THEN [ok |-> FALSE, issues |-> <<Issue("No data rows found", <<>>)>>]
        ELSE [ok |-> TRUE, issues |-> <<>>]

_validate_structure(table) ==
    LET absent(c) == c \notin SeqRange(table.columns)
        missing == SelectSeq(REQUIRED_COLUMNS, absent)
    IN  IF missing # <<>>
        THEN [ok |-> FALSE,
              issues |-> <<Issue("Missing required columns", missing)>>]
        ELSE IF Len(table.rows) = 0
        THEN [ok |-> FALSE, issues |-> <<Issue("No data rows found", <<>>)>>]
        ELSE [ok |-> TRUE, issues |-> <<>>]

-----------------------------------------------------------------------------
(* Cell conversions of _clean_data *)

NaT == [nat |-> TRUE, y |-> 0, mo |-> 0, d |-> 0]

DaysIn(y, mo) ==
    IF mo \in {4, 6, 9, 11} THEN 30
    ELSE IF mo = 2
         THEN (IF (y % 4 = 0 /\ y % 100 # 0) \/ y % 400 = 0 THEN 29 ELSE 28)
    ELSE 31

\* pd.to_datetime(errors="coerce") of one cell, for the texts of the model: an
\* ISO date YYYY-MM-DD is a timestamp at midnight, any other text of the row
\* pool (which holds no other date spelling) and a missing cell are NaT
ToDatetime(x) ==
    IF x = Missing \/ Len(x) # 10 THEN NaT
    ELSE IF x[5] = "-" /\ x[8] = "-"
            /\ AllDigits(SubSeq(x, 1, 4)) /\ AllDigits(SubSeq(x, 6, 7))
            /\ AllDigits(SubSeq(x, 9, 10))
         THEN LET y == DigitsVal(SubSeq(x, 1, 4))
                  mo == DigitsVal(SubSeq(x, 6, 7))
                  d == DigitsVal(SubSeq(x, 9, 10))
              IN  IF mo \in 1..12 /\ d \in 1..DaysIn(y, mo)
                  THEN [nat |-> FALSE, y |-> y, mo |-> mo, d |-> d]
                  ELSE NaT
         ELSE NaT

DateLE(a, b) ==
    a.y * 10000 + a.mo * 100 + a.d <= b.y * 10000 + b.mo * 100 + b.d

\* _to_percent scaling only the values below 1.0
_to_percent_below_one(x) ==
    LET s == KeepOnly(AsStr(x), {c \in SeqRange(AsStr(x)) : c \notin Whitespace \cup {"%"}})
        v == ToNumeric(s)
    IN  IF IsNum(v) /\ DecLess(v, Dec(1, 0)) THEN DecMulInt(v, 100) ELSE v

\* _to_percent of one cell: "%" and whitespace removed, a value <= 1.0 scaled up
_to_percent(x) ==
    LET s == KeepOnly(AsStr(x), {c \in SeqRange(AsStr(x)) : c \notin Whitespace \cup {"%"}})
        v == ToNumeric(s)
    IN  IF IsNum(v) /\ ~DecLess(Dec(1, 0), v) THEN DecMulInt(v, 100) ELSE v

\* Series.clip(0, 100) of one value
Clip0to100(v) ==
    IF v.nan THEN v
    ELSE IF DecLess(v, Dec(0, 0)) THEN Dec(0, 0)
    ELSE IF DecLess(Dec(100, 0), v) THEN Dec(100, 0)
    ELSE v

\* the location tidy: astype(str).str.strip(), then "", "nan", "NaN" become NA
TidyLocation(x) ==
    LET s == Strip(AsStr(x))
    IN  IF s \in {<<>>, <<"n", "a", "n">>, <<"N", "a", "N">>} THEN Missing ELSE s

\* the value _clean_data leaves in column c of a row
CleanCell(row, c) ==
    CASE c = "session_date" -> ToDatetime(row[c])
      [] c = "energy_added_kwh" -> _to_number(row[c])
      [] c = "total_cost" -> _to_currency(row[c])
      [] c \in {"max_power_kw", "avg_power_kw"} -> _to_number(row[c])
      [] c \in {"start_soc_percent", "end_soc_percent"} -> Clip0to100(_to_percent(row[c]))
      [] c = "charging_duration_minutes" -> _duration_to_minutes(row["charging_duration"])
      [] c = "location_name" -> TidyLocation(row[c])
      [] OTHER -> row[c]

\* the columns of the cleaned table: the derived minutes column comes last
CleanColumns(columns) ==
    IF "charging_duration" \in SeqRange(columns)
           /\ "charging_duration_minutes" \notin SeqRange(columns)
    THEN columns \o <<"charging_duration_minutes">>
    ELSE columns

DedupKey(row) == <<row["session_date"], row["energy_added_kwh"], row["total_cost"]>>

\* drop_duplicates(subset, keep="first"): a row goes when an earlier one has its key
DropDuplicates(rows) ==
    LET first == {i \in 1..Len(rows) :
                    \A j \in 1..(i - 1) : DedupKey(rows[j]) # DedupKey(rows[i])}
        nth(k) == CHOOSE i \in first : Cardinality({j \in first : j <= i}) = k
    IN  [k \in 1..Cardinality(first) |-> rows[nth(k)]]

\* every row of the table with its cells converted, before any row is dropped
CleanRows(table, cols) ==
    [r \in 1..Len(table.rows) |-> [c \in SeqRange(cols) |-> CleanCell(table.rows[r], c)]]

\* _clean_data without the de-duplication
_clean_data_keep_duplicates(table) ==
    LET cols == CleanColumns(table.columns)
        has(c) == c \in SeqRange(cols)
        energy_ok(row) == has("energy_added_kwh") => DecPos(row["energy_added_kwh"])
        cost_ok(row) == has("total_cost") => DecNonNeg(row["total_cost"])
        valid(row) == energy_ok(row) /\ cost_ok(row)
        dedup == {"session_date", "energy_added_kwh", "total_cost"} \subseteq SeqRange(cols)
    IN  Only({[columns |-> cols,
               rows |-> kept] :
                 kept \in {SelectSeq(CleanRows(table, cols), valid)}})

\* _clean_data with the cost filter letting a missing cost through
_clean_data_keep_nan_cost(table) ==
    LET cols == CleanColumns(table.columns)
        has(c) == c \in SeqRange(cols)
        energy_ok(row) == has("energy_added_kwh") => DecPos(row["energy_added_kwh"])
        cost_ok(row) == has("total_cost") => (row["total_cost"].nan \/ DecNonNeg(row["total_cost"]))
        valid(row) == energy_ok(row) /\ cost_ok(row)
        dedup == {"session_date", "energy_added_kwh", "total_cost"} \subseteq SeqRange(cols)
    IN  Only({[columns |-> cols,
               rows |-> IF dedup THEN DropDuplicates(kept) ELSE kept] :
                 kept \in {SelectSeq(CleanRows(table, cols), valid)}})

_clean_data(table) ==
    LET cols == CleanColumns(table.columns)
        has(c) == c \in SeqRange(cols)
        energy_ok(row) == has("energy_added_kwh") => DecPos(row["energy_added_kwh"])
        cost_ok(row) == has("total_cost") => DecNonNeg(row["total_cost"])
        valid(row) == energy_ok(row) /\ cost_ok(row)
        dedup == {"session_date", "energy_added_kwh", "total_cost"} \subseteq SeqRange(cols)
    IN  Only({[columns |-> cols,
               rows |-> IF dedup THEN DropDuplicates(kept) ELSE kept] :
                 kept \in {SelectSeq(CleanRows(table, cols), valid)}})

\* the decimal digits of a natural number
RECURSIVE DigitsOf(_)
DigitsOf(n) ==
    IF n < 10 THEN <<CHOOSE c \in Digits : DigitVal(c) = n>>
    ELSE Append(DigitsOf(n \div 10), CHOOSE c \in Digits : DigitVal(c) = n % 10)

Zeros(n) == [i \in 1..n |-> "0"]

\* str() of a float64, which is what astype(str) gives for a cell of a float
\* column: positional notation with at least one decimal, and the exponent
\* notation d.ddde-XX below 0.0001 and d.ddde+XX from 1e16 on
FloatStr(v) ==
    IF v.nan THEN <<"n", "a", "n">>
    ELSE LET d == DigitsOf(IF v.m < 0 THEN 0 - v.m ELSE v.m)
             sign == IF v.m < 0 THEN <<"-">> ELSE <<>>
             e10 == Len(d) - 1 - v.s
             ae == IF e10 < 0 THEN 0 - e10 ELSE e10
         IN  IF v.m = 0 THEN <<"0", ".", "0">>
             ELSE IF e10 < 0 - 4 \/ e10 >= 16
             THEN sign \o <<Head(d)>> \o (IF Len(d) > 1 THEN <<".">> \o Tail(d) ELSE <<>>)
                      \o <<"e", IF e10 < 0 THEN "-" ELSE "+">>
                      \o (IF ae < 10 THEN <<"0">> ELSE <<>>) \o DigitsOf(ae)
             ELSE IF v.s <= 0 THEN sign \o d \o Zeros(0 - v.s) \o <<".", "0">>
             ELSE IF Len(d) > v.s
             THEN sign \o SubSeq(d, 1, Len(d) - v.s) \o <<".">>
                      \o SubSeq(d, Len(d) - v.s + 1, Len(d))
             ELSE sign \o <<"0", ".">> \o Zeros(v.s - Len(d)) \o d

\* str(pd.NA)
NAText == <<"<", "N", "A", ">">>

\* the value _clean_data leaves in column c of a row of a table it has cleaned
\* before: the numeric columns are float64 by now and go through astype(str),
\* the dates are timestamps already, a location that was set to pd.NA reads
\* "<NA>", and the duration text is as it was
RecleanCell(row, c) ==
    CASE c = "session_date" -> row[c]
      [] c = "energy_added_kwh" -> to_number(FloatStr(row[c]))
      [] c = "total_cost" -> to_currency(FloatStr(row[c]))
      [] c \in {"max_power_kw", "avg_power_kw"} -> to_number(FloatStr(row[c]))
      [] c \in {"start_soc_percent", "end_soc_percent"} ->
             Clip0to100(_to_percent(FloatStr(row[c])))
      [] c = "charging_duration_minutes" /\ "charging_duration" \in DOMAIN row ->
             _duration_to_minutes(row["charging_duration"])
      [] c = "location_name" -> TidyLocation(IF row[c] = Missing THEN NAText ELSE row[c])
      [] OTHER -> row[c]

\* _clean_data on a table that _clean_data returned
CleanAgain(table) ==
    LET cols == CleanColumns(table.columns)
        has(c) == c \in SeqRange(cols)
        energy_ok(row) == has("energy_added_kwh") => DecPos(row["energy_added_kwh"])
        cost_ok(row) == has("total_cost") => DecNonNeg(row["total_cost"])
        valid(row) == energy_ok(row) /\ cost_ok(row)
        dedup == {"session_date", "energy_added_kwh", "total_cost"} \subseteq SeqRange(cols)
        again == [r \in 1..Len(table.rows) |->
                     [c \in SeqRange(cols) |-> RecleanCell(table.rows[r], c)]]
    IN  Only({[columns |-> cols,
               rows |-> IF dedup THEN DropDuplicates(kept) ELSE kept] :
                 kept \in {SelectSeq(again, valid)}})

-----------------------------------------------------------------------------
(* Data quality *)

OPTIONAL_COLUMNS ==
    <<"start_soc_percent", "end_soc_percent", "charging_duration", "location_name",
      "charger_type", "max_power_kw", "avg_power_kw", "session_time", "start_time",
      "end_time", "location_address", "connector_type", "vehicle_name",
      "charging_duration_minutes">>

NumericColumns ==
    {"energy_added_kwh", "total_cost", "max_power_kw", "avg_power_kw",
     "start_soc_percent", "end_soc_percent", "charging_duration_minutes"}

\* Series.notna() of one cell of a cleaned table
NotNa(c, v) ==
    CASE c = "session_date" -> ~v.nat
      [] c \in NumericColumns -> ~v.nan
      [] OTHER -> v # Missing

\* the number of non-null cells of the columns of group (from its k-th on) that
\* the table has: completeness is Filled / (Present * rows)
RECURSIVE FilledFrom(_, _, _)
FilledFrom(table, group, k) ==
    IF k > Len(group) THEN 0
    ELSE (IF group[k] \in SeqRange(table.columns)
          THEN Cardinality({r \in 1..Len(table.rows) :
                                NotNa(group[k], table.rows[r][group[k]])})
          ELSE 0) + FilledFrom(table, group, k + 1)

Filled(table, group) == FilledFrom(table, group, 1)

Present(table, group) == Cardinality(SeqRange(group) \cap SeqRange(table.columns))

\* the non-null counts of the columns of group that the table has, in the order
\* of group: the order in which np.mean adds their fractions up
Fills(table, group) ==
    LET has(c) == c \in SeqRange(table.columns)
        present == SelectSeq(group, has)
    IN  [k \in 1..Len(present) |->
            Cardinality({r \in 1..Len(table.rows) : NotNa(present[k], table.rows[r][present[k]])})]

RECURSIVE SumTo(_, _)
SumTo(q, k) == IF k = 0 THEN 0 ELSE q[k] + SumTo(q, k - 1)

\* binary64: with three rows the fractions are thirds, and adding 1/3 to a
\* running sum of 5/3 gives 1.9999999999999998, not 2; nothing but zeros
\* added after that leaves the sum one ulp short, and the mean of four such
\* columns is 0.49999999999999994. Every other sum of up to six fractions of
\* up to four rows compares with the thresholds as the exact sum does.
SumShort(table, group) ==
    LET fills == Fills(table, group)
    IN  /\ Len(table.rows) = 3 /\ Len(fills) = 4
        /\ \E j \in 1..Len(fills) :
               /\ SumTo(fills, j - 1) = 5 /\ fills[j] = 1
               /\ \A k \in (j + 1)..Len(fills) : fills[k] = 0

\* completeness that counts a group none of whose columns the table has as complete
ScoreAtLeast_absent_group_complete(table, pct) ==
    LET n == Len(table.rows)
        pr == Present(table, REQUIRED_COLUMNS)
        po == Present(table, OPTIONAL_COLUMNS)
        fr == Filled(table, REQUIRED_COLUMNS)
        fo == Filled(table, OPTIONAL_COLUMNS)
    IN  IF pr = 0 /\ po = 0 THEN 100 >= pct
        ELSE IF po = 0 THEN 70 * fr + 30 * pr * n >= pct * pr * n
        ELSE IF pr = 0 THEN 70 * po * n + 30 * fo >= pct * po * n
        ELSE /\ 70 * fr * po + 30 * fo * pr >= pct * pr * po * n
             /\ ~(/\ 70 * fr * po + 30 * fo * pr = pct * pr * po * n
                  /\ SumShort(table, OPTIONAL_COLUMNS))

\* whether 0.7 * req + 0.3 * opt >= pct / 100 as the floating-point
\* expression decides it: in whole numbers, but for a score that equals the
\* threshold while the optional mean came out one ulp short
ScoreAtLeast(table, pct) ==
    LET n == Len(table.rows)
        pr == Present(table, REQUIRED_COLUMNS)
        po == Present(table, OPTIONAL_COLUMNS)
        fr == Filled(table, REQUIRED_COLUMNS)
        fo == Filled(table, OPTIONAL_COLUMNS)
    IN  IF pr = 0 /\ po = 0 THEN 0 >= pct
        ELSE IF po = 0 THEN 70 * fr >= pct * pr * n
        ELSE IF pr = 0 THEN 30 * fo >= pct * po * n
        ELSE /\ 70 * fr * po + 30 * fo * pr >= pct * pr * po * n
             /\ ~(/\ 70 * fr * po + 30 * fo * pr = pct * pr * po * n
                  /\ SumShort(table, OPTIONAL_COLUMNS))

_assess_data_quality(table) ==
    IF Len(table.rows) = 0 \/ Len(table.columns) = 0 THEN "poor"
    ELSE IF ScoreAtLeast(table, 95) THEN "excellent"
    ELSE IF ScoreAtLeast(table, 85) THEN "good"
    ELSE IF ScoreAtLeast(table, 70) THEN "fair"
    ELSE "poor"

-----------------------------------------------------------------------------
(* process_csv *)

\* pd.read_csv on the content: <<>> is content it cannot parse (no columns)
ReadCsv(content) ==
    IF content = <<>> THEN Raise("No columns to parse from file") ELSE Return(content[1])

\* the reader whose read_csv call on a plain path carries no "errors" keyword
_read_csv_safely_plain_path(src) ==
    CASE src.kind = "path" ->
           (IF ~src.exists THEN Raise("No such file")
            ELSE IF src.suffix = ".gz"
                 THEN (IF src.gzipped THEN ReadCsv(src.content)
                       ELSE Raise("Not a gzipped file"))
            ELSE ReadCsv(src.content))
      [] src.kind = "BytesIO" -> ReadCsv(src.content)
      [] src.kind = "StringIO" -> ReadCsv(src.content)
      [] OTHER -> Raise("Unsupported source type")

_read_csv_safely(src) ==
    CASE src.kind = "path" ->
           (IF ~src.exists THEN Raise("No such file")
            ELSE IF src.suffix = ".gz"
                 THEN (IF src.gzipped THEN ReadCsv(src.content)
                       ELSE Raise("Not a gzipped file"))
            \* read_csv takes no keyword "errors": the call itself is rejected
            ELSE Raise("read_csv() got an unexpected keyword argument 'errors'"))
      [] src.kind = "BytesIO" -> ReadCsv(src.content)
      [] src.kind = "StringIO" -> ReadCsv(src.content)
      [] OTHER -> Raise("Unsupported source type")

\* DataFrame.empty
Empty(table) == Len(table.rows) = 0 \/ Len(table.columns) = 0

ProcessingResult(success, data, quality, issues, metadata) ==
    [returned |-> TRUE, raised |-> <<>>, success |-> success, data |-> data,
     quality |-> quality, issues |-> issues, metadata |-> metadata]

\* no result: the exception e left the function
Raised(e) ==
    [returned |-> FALSE, raised |-> <<e>>, success |-> FALSE, data |-> <<>>,
     quality |-> "poor", issues |-> <<>>, metadata |-> [error |-> e]]

_fail(issues, meta) == ProcessingResult(FALSE, <<>>, "poor", issues, meta)

RECURSIVE SumColumn(_, _)
SumColumn(rows, c) ==
    IF rows = <<>> THEN Dec(0, 0) ELSE DecAdd(Head(rows)[c], SumColumn(Tail(rows), c))

\* _safe_iso: the earliest ("min") or latest date of the column, <<>> when none
_safe_iso(table, which) ==
    LET dates == {table.rows[r]["session_date"] : r \in 1..Len(table.rows)}
        real == {d \in dates : ~d.nat}
    IN  IF "session_date" \notin SeqRange(table.columns) \/ real = {} THEN <<>>
        ELSE IF which = "min"
             THEN << CHOOSE d \in real : \A e \in real : DateLE(d, e) >>
             ELSE << CHOOSE d \in real : \A e \in real : DateLE(e, d) >>

Throws(e, done) == [exc |-> <<e>>, result |-> Raised(e), stages |-> done]
Returns(r, done) == [exc |-> <<>>, result |-> r, stages |-> done]

\* lines 144-160: the quality, the summary and the successful result
Summarise(df_raw, fmt, issues, d) ==
    Returns(ProcessingResult(TRUE, <<d>>, _assess_data_quality(d), issues,
                             [format |-> fmt,
                              original_columns |-> df_raw.columns,
                              original_rows |-> Len(df_raw.rows),
                              processed_rows |-> Len(d.rows),
                              columns_available |-> d.columns,
                              date_range_start |-> _safe_iso(d, "min"),
                              date_range_end |-> _safe_iso(d, "max"),
                              total_energy_kwh |-> SumColumn(d.rows, "energy_added_kwh"),
                              total_cost |-> SumColumn(d.rows, "total_cost")]),
            <<"read", "detect", "normalize", "validate", "clean", "quality">>)

\* lines 138-142: the structure check, and the cleaning when it passes
ValidateAndClean(df_raw, fmt, normal) ==
    Only({IF ~check.ok
          THEN Returns(_fail(check.issues,
                             [format |-> fmt, original_columns |-> df_raw.columns,
                              rows_processed |-> 0]),
                       <<"read", "detect", "normalize", "validate">>)
          ELSE Only({Summarise(df_raw, fmt, check.issues, d) : d \in {_clean_data(normal)}}) :
             check \in {_validate_structure(normal)}})

\* lines 131-134: the format, and the renaming when one is recognised
DetectAndNormalize(df_raw) ==
    Only({IF ~fmt.ok THEN Throws(fmt.err, <<"read", "detect">>)
          ELSE Only({ValidateAndClean(df_raw, fmt.val, normal) :
                       normal \in {_normalize_columns(df_raw, fmt.val)}}) :
             fmt \in {_detect_format(df_raw.columns)}})

\* the body of the try block of process_csv: what it returns, or the exception
\* (exc) that leaves it, and the stages it went through
ProcessCsvTry(src) ==
    Only({IF ~read.ok THEN Throws(read.err, <<"read">>)
          ELSE IF Empty(read.val)
          THEN Returns(_fail(<<Issue("File contains no rows", <<>>)>>,
                             [rows_processed |-> 0]),
                       <<"read">>)
          ELSE DetectAndNormalize(read.val) :
             read \in {_read_csv_safely(src)}})

\* the except clause of process_csv: any exception becomes a failed result that
\* carries its message
Handler(body) ==
    IF body.exc # <<>>
    THEN [result |-> ProcessingResult(FALSE, <<>>, "poor",
                                      <<Issue("Processing error", body.exc)>>,
                                      [error |-> body.exc[1]]),
          stages |-> body.stages]
    ELSE [result |-> body.result, stages |-> body.stages]

NoHandler(body) == [result |-> body.result, stages |-> body.stages]

\* process_csv whose handler catches nothing
process_csv_no_handler(src) == Only({NoHandler(body) : body \in {ProcessCsvTry(src)}})

process_csv(src) == Only({Handler(body) : body \in {ProcessCsvTry(src)}})

-----------------------------------------------------------------------------
(* The sources process_csv is given *)

MaxRows == 3

\* the raw rows of the model: the cell text of each kind of column
RowKinds ==
    <<
       \* a valid session
       [date |-> <<"2", "0", "2", "4", "-", "0", "1", "-", "0", "5">>,
        energy |-> <<"1", "2", ",", "5">>,
        cost |-> <<"$", "5", ".", "0", "0">>,
        soc |-> <<"0", ".", "8", "5">>,
        dur |-> <<"1", "h", " ", "3", "0", "m">>,
        loc |-> <<"H", "o", "m", "e">>],
       \* the same date, energy and cost spelt differently
       [date |-> <<"2", "0", "2", "4", "-", "0", "1", "-", "0", "5">>,
        energy |-> <<"1", "2", ".", "5", "0">>,
        cost |-> <<"5">>,
        soc |-> <<"8", "5", "%">>,
        dur |-> <<"9", "0">>,
        loc |-> <<"W", "o", "r", "k">>],
       \* valid, free, with a negative duration
       [date |-> <<"2", "0", "2", "4", "-", "0", "2", "-", "1", "0">>,
        energy |-> <<"1", ",", "2", "3", "4", ".", "5", "6">>,
        cost |-> <<"0">>,
        soc |-> <<"2", "0">>,
        dur |-> <<"-", "9", "0">>,
        loc |-> <<" ">>],
       \* zero energy
       [date |-> <<"2", "0", "2", "4", "-", "0", "1", "-", "0", "5">>,
        energy |-> <<"0">>,
        cost |-> <<"5">>,
        soc |-> <<"5", "0">>,
        dur |-> <<"1", ":", "3", "0">>,
        loc |-> <<"H", "o", "m", "e">>],
       \* negative cost
       [date |-> <<"2", "0", "2", "4", "-", "0", "1", "-", "0", "6">>,
        energy |-> <<"1", "2", ",", "5">>,
        cost |-> <<"-", "1">>,
        soc |-> <<"5", "0">>,
        dur |-> <<"2", "h">>,
        loc |-> <<"H", "o", "m", "e">>],
       \* unparseable energy
       [date |-> <<"2", "0", "2", "4", "-", "0", "1", "-", "0", "7">>,
        energy |-> <<"a", "b", "c">>,
        cost |-> <<"5">>,
        soc |-> <<"5", "0">>,
        dur |-> <<"9", "0", "m">>,
        loc |-> <<"H", "o", "m", "e">>],
       \* valid, no readable date
       [date |-> <<"n", "/", "a">>,
        energy |-> <<"1", "2", ",", "5">>,
        cost |-> <<"$", "5", ".", "0", "0">>,
        soc |-> <<"x">>,
        dur |-> <<"l", "a", "t", "e", "r">>,
        loc |-> <<"H", "o", "m", "e">>],
       \* missing cost
       [date |-> Missing,
        energy |-> <<"1", "2", ",", "5">>,
        cost |-> Missing,
        soc |-> Missing,
        dur |-> Missing,
        loc |-> Missing],
       \* valid, dated, every optional cell missing
       [date |-> <<"2", "0", "2", "4", "-", "0", "2", "-", "2", "0">>,
        energy |-> <<"1", "2", ",", "5">>,
        cost |-> <<"5", ".", "0", "0">>,
        soc |-> Missing,
        dur |-> Missing,
        loc |-> Missing],
       \* valid, dated, no SOC and a duration that is not one
       [date |-> <<"2", "0", "2", "4", "-", "0", "3", "-", "0", "1">>,
        energy |-> <<"6">>,
        cost |-> <<"1", ".", "5", "0">>,
        soc |-> Missing,
        dur |-> <<"l", "a", "t", "e", "r">>,
        loc |-> <<"W", "o", "r", "k">>]
    >>

\* which cell of a raw row a column of the file holds
Slot(h) ==
    CASE h \in {"Date", "Session Date"} -> "date"
      [] h \in {"Energy Added (kWh)", "Energy Delivered (kWh)", "kWh"} -> "energy"
      [] h \in {"Cost", "Charge Cost", "Price", "Charge", "Energy Cost"} -> "cost"
      [] h \in {"Starting SOC", "Ending SOC", "Start %", "End %"} -> "soc"
      [] h \in {"Charging Time", "Duration"} -> "dur"
      [] OTHER -> "loc"

RawTableOf(pool, columns, kinds) ==
    [columns |-> columns,
     rows |-> [r \in 1..Len(kinds) |->
                 [h \in SeqRange(columns) |-> pool[kinds[r]][Slot(h)]]]]

RawTable(columns, kinds) == RawTableOf(RowKinds, columns, kinds)

\* the headers whose every combination is tried, in file order
HeaderPool ==
    <<"Date", "Energy Added (kWh)", "Starting SOC", "Energy Delivered (kWh)", "Charge Cost",
      "kWh", "Start %", "End %", "Cost", "Charger Type", "Duration">>

InSet(S) == LET in(h) == h \in S IN SelectSeq(HeaderPool, in)

MobileColumns ==
    <<"Date", "Location", "Energy Added (kWh)", "Charging Time", "Cost", "Starting SOC">>
GenericColumns == <<"Session Date", "kWh", "Price", "Duration", "Notes">>

\* a generic export of the three required columns and nothing else
PlainColumns == <<"Date", "kWh", "Cost">>

MaxPlainRows == 2

\* files whose one header with an energy word is also one with a cost word
SniffColumns == {<<"Date", "Energy Cost">>, <<"Date", "Energy Cost", "Price">>}

Tables ==
    {RawTable(InSet(S), <<1>>) : S \in (SUBSET SeqRange(HeaderPool)) \ {{}}}
        \cup {RawTable(MobileColumns, kinds) :
                kinds \in UNION {[1..n -> 1..Len(RowKinds)] : n \in 0..MaxRows}}
        \cup {RawTable(GenericColumns, kinds) :
                kinds \in UNION {[1..n -> 1..Len(RowKinds)] : n \in 0..1}}
        \cup {RawTable(columns, <<1>>) : columns \in SniffColumns}
        \cup {RawTable(PlainColumns, kinds) :
                kinds \in UNION {[1..n -> 1..Len(RowKinds)] : n \in 0..MaxPlainRows}}

Source(kind, exists, suffix, gzipped, content) ==
    [kind |-> kind, exists |-> exists, suffix |-> suffix, gzipped |-> gzipped,
     content |-> content]

SampleTable == RawTable(MobileColumns, <<1, 3>>)

Sources ==
    {Source("StringIO", TRUE, "", FALSE, <<tb>>) : tb \in Tables}
        \cup {Source("StringIO", TRUE, "", FALSE, <<>>),
              Source("BytesIO", TRUE, "", FALSE, <<SampleTable>>),
              Source("BytesIO", TRUE, "", TRUE, <<SampleTable>>),
              Source("BytesIO", TRUE, "", FALSE, <<>>),
              Source("path", FALSE, ".csv", FALSE, <<>>),
              Source("path", TRUE, ".csv", FALSE, <<SampleTable>>),
              Source("path", TRUE, ".gz", TRUE, <<SampleTable>>),
              Source("path", TRUE, ".gz", FALSE, <<SampleTable>>),
              Source("path", TRUE, ".gz", TRUE, <<>>),
              Source("other", TRUE, "", FALSE, <<>>)}

Init ==
    /\ parser = "none" /\ text = <<>> /\ parsed = NaN
    /\ source = NoSource /\ result = NoResult /\ stages = <<>> /\ cleaned = NoClean
    /\ df = NoTable /\ analysis = NoAnalysis /\ metric = NoMetric /\ trends = NoTrends
    /\ pattern = NoPattern /\ category = NoCategory /\ savings = NoSavings
    /\ requests = <<>> /\ files = <<>> /\ calls = <<>>
    /\ heap = <<>> /\ cache = <<>> /\ invocations = <<>>

\* one call of process_csv on the shared, stateless processor
ProcessCsv ==
    \E src \in Sources :
        /\ source = NoSource
        /\ source' = src
        /\ \E out \in {process_csv(src)} : result' = out.result /\ stages' = out.stages
        /\ UNCHANGED <<parserVars, cleaned, engineVars, routerVars>>

Next == ProcessCsv

Spec == Init /\ [][Next]_vars

-----------------------------------------------------------------------------
(* Properties of process_csv *)

Called == source # NoSource

StringSource(tb) == Source("StringIO", TRUE, "", FALSE, <<tb>>)

\* the raw table a call read, when it read one with rows and columns
ReadTable == source.content # <<>> /\ _read_csv_safely(source).ok
                /\ ~Empty(source.content[1])

\* C2: process_csv never raises to its caller. Whatever the source, the call
\* returns a ProcessingResult; when an exception left the try block the result
\* has success = false and its one issue carries the exception's message, and
\* every other failed result has a non-empty issues list too.
C2_NeverRaises ==
    Called =>
        /\ result.returned /\ result.raised = <<>>
        /\ LET exc == ProcessCsvTry(source).exc
           IN  exc # <<>> =>
                   /\ ~result.success
                   /\ result.issues = <<Issue("Processing error", exc)>>
                   /\ result.metadata = [error |-> exc[1]]
        /\ ~result.success => result.issues # <<>>

\* a path that does not exist: the read raises, the call returns the failure
C2_Witness ==
    /\ source = Source("path", FALSE, ".csv", FALSE, <<>>)
    /\ result.returned /\ ~result.success
    /\ result.issues = <<Issue("Processing error", <<"No such file">>)>>

\* C3: every row of a table returned with success = true has
\* energy_added_kwh > 0 and total_cost >= 0 (a missing or unparseable value is
\* neither), so no row with an invalid energy or cost is retained.
C3_ValidRows ==
    (Called /\ result.success) =>
        \A r \in 1..Len(result.data[1].rows) :
            /\ DecPos(result.data[1].rows[r]["energy_added_kwh"])
            /\ DecNonNeg(result.data[1].rows[r]["total_cost"])

\* rows with a missing cost, a negative cost, a zero energy: only the valid one stays
C3_Witness ==
    \E k \in {4, 5, 6, 8} :
        /\ source = StringSource(RawTable(MobileColumns, <<8, 1, k>>))
        /\ result.success
        /\ Len(result.data[1].rows) = 1
        /\ result.data[1].rows[1]["energy_added_kwh"] = Dec(125, 1)
        /\ result.data[1].rows[1]["total_cost"] = Dec(5, 0)

\* the table handed to the cleaning stage: the raw table with its columns renamed
Normalized == _normalize_columns(source.content[1], result.metadata.format)

\* the (session_date, energy_added_kwh, total_cost) triple of a renamed raw row
Triple(row) ==
    <<ToDatetime(row["session_date"]), to_number(AsStr(row["energy_added_kwh"])),
      to_currency(AsStr(row["total_cost"]))>>

\* the triples of the raw rows, in input order
Triples(rows) == [i \in 1..Len(rows) |-> Triple(rows[i])]

\* the raw rows with energy > 0 and cost >= 0
ValidIn(keys) == {i \in 1..Len(keys) : DecPos(keys[i][2]) /\ DecNonNeg(keys[i][3])}

\* of the valid rows, the ones no earlier valid row shares its triple with
FirstOfTriple(keys, valid) == {i \in valid : \A j \in valid : j < i => keys[j] # keys[i]}

C5_AsStated ==
    (Called /\ result.success) => Len(result.data[1].rows) >= 1

\* the headers of the raw table
Headers == SeqRange(source.content[1].columns)

\* the format the stated rules give a set of headers, "" when none applies
StatedFormat(cols) ==
    LET contains(c, words) == \E k \in words : InLower(k, c)
    IN  IF {"Energy Added (kWh)", "Starting SOC"} \subseteq cols THEN "tesla_mobile"
        ELSE IF {"Energy Delivered (kWh)", "Charge Cost"} \subseteq cols THEN "tesla_web"
        ELSE IF {"kWh", "Start %", "End %"} \subseteq cols THEN "teslafi"
        ELSE IF (\E c \in cols : contains(c, EnergyWords))
                    /\ (\E c \in cols : contains(c, CostWords)) THEN "generic"
        ELSE ""

\* C6: the detector tries tesla_mobile, tesla_web, teslafi and generic in that
\* order and the first rule that matches gives the format; when none matches
\* the call fails with the unrecognized-format error after the detect stage
\* and no row is processed. Headers {Energy Added (kWh), Starting SOC, Cost}
\* are tesla_mobile and {kWh, Cost} are generic.
C6_DetectorOrder ==
    (Called /\ ReadTable) =>
        /\ StatedFormat(Headers) # "" => result.metadata.format = StatedFormat(Headers)
        /\ StatedFormat(Headers) = "" =>
               /\ ~result.success /\ result.data = <<>>
               /\ result.issues =
                      <<Issue("Processing error",
                              <<"Unrecognized CSV format; headers do not match expected patterns">>)>>
               /\ stages = <<"read", "detect">>
        /\ Headers = {"Energy Added (kWh)", "Starting SOC", "Cost"} =>
               result.metadata.format = "tesla_mobile"
        /\ Headers = {"kWh", "Cost"} => result.metadata.format = "generic"

\* headers that satisfy the tesla_mobile rule and the teslafi rule
C6_Witness ==
    /\ Called /\ ReadTable
    /\ Headers = {"Energy Added (kWh)", "Starting SOC", "kWh", "Start %", "End %", "Cost"}
    /\ result.metadata.format = "tesla_mobile"

\* C7: when a required column is absent after the renaming, the result has
\* success = false, no data, quality poor, rows_processed = 0 and one issue
\* listing exactly the missing required columns, and the cleaning stage is
\* not run.
C7_MissingColumns ==
    (Called /\ ReadTable /\ StatedFormat(Headers) # "") =>
        LET absent(c) == c \notin SeqRange(Normalized.columns)
            missing == SelectSeq(REQUIRED_COLUMNS, absent)
        IN  missing # <<>> =>
                /\ ~result.success /\ result.data = <<>> /\ result.quality = "poor"
                /\ result.metadata.rows_processed = 0
                /\ result.issues = <<Issue("Missing required columns", missing)>>
                /\ stages = <<"read", "detect", "normalize", "validate">>

\* a tesla_mobile file with neither a date nor a cost column
C7_Witness ==
    /\ Called /\ ReadTable
    /\ Headers = {"Energy Added (kWh)", "Starting SOC"}
    /\ ~result.success
    /\ result.issues = <<Issue("Missing required columns", <<"session_date", "total_cost">>)>>

\* C10 as the specification states it: every charging_duration_minutes value of
\* a cleaned table that is not missing is >= 0
C10_AsStated ==
    (Called /\ result.success
        /\ "charging_duration_minutes" \in SeqRange(result.data[1].columns)) =>
        \A r \in 1..Len(result.data[1].rows) :
            LET v == result.data[1].rows[r]["charging_duration_minutes"]
            IN  v.nan \/ DecNonNeg(v)

\* whether 0.7 * completeness(required) + 0.3 * completeness(optional) is at
\* least pct / 100 in exact arithmetic, the completeness of a group being the
\* mean non-null fraction of the columns of the group that the table has
StatedScoreAtLeast(table, pct) ==
    LET n == Len(table.rows)
        pr == Present(table, REQUIRED_COLUMNS)
        po == Present(table, OPTIONAL_COLUMNS)
        fr == Filled(table, REQUIRED_COLUMNS)
        fo == Filled(table, OPTIONAL_COLUMNS)
    IN  IF pr = 0 /\ po = 0 THEN 0 >= pct
        ELSE IF po = 0 THEN 70 * fr >= pct * pr * n
        ELSE IF pr = 0 THEN 30 * fo >= pct * po * n
        ELSE 70 * fr * po + 30 * fo * pr >= pct * pr * po * n

StatedLabel(table) ==
    IF Len(table.rows) = 0 THEN "poor"
    ELSE IF StatedScoreAtLeast(table, 95) THEN "excellent"
    ELSE IF StatedScoreAtLeast(table, 85) THEN "good"
    ELSE IF StatedScoreAtLeast(table, 70) THEN "fair"
    ELSE "poor"

\* C12 as the specification states it: the quality label of a successful result
\* is the label of the score 0.7 * completeness(required) + 0.3 *
\* completeness(optional) of the cleaned table: 0.95 and above excellent, 0.85
\* and above good, 0.70 and above fair, anything lower and the empty table poor
C12_AsStated ==
    (Called /\ result.success) => result.quality = StatedLabel(result.data[1])

-----------------------------------------------------------------------------
(* The efficiency engine: analyze_efficiency on a table of the two numeric  *)
(* columns energy_added_kwh and total_cost. With no other column the        *)
(* per-type and per-location breakdowns and the trends are empty, the peak  *)
(* hours are none and the SOC averages are absent.                          *)

MaxSessions == 2

RECURSIVE GCD(_, _)
GCD(a, b) == IF b = 0 THEN a ELSE GCD(b, a % b)

\* the quotient x / y of two decimals, y > 0, as a fraction in lowest terms
Ratio(x, y) ==
    LET k == Max2(x.s, y.s)
        n == AtScale(x, k)
        d == AtScale(y, k)
        g == GCD(IF n < 0 THEN 0 - n ELSE n, d)
    IN  [num |-> n \div g, den |-> d \div g]

\* q <= c / 100 and q > c / 100 for a fraction q and a number of hundredths c
RatioLE(q, c) == 100 * q.num <= c * q.den
RatioGT(q, c) == 100 * q.num > c * q.den

\* float division results that are no number: x / nan, and math.inf
NanRatio == [num |-> 0, den |-> 0]
Inf == [num |-> 1, den |-> 0]

\* EFFICIENCY_THRESHOLDS, in hundredths of a dollar per kWh; nan is below no
\* threshold and inf only below the last one, math.inf: both are rated poor
_rate_efficiency(cost_per_kwh) ==
    IF cost_per_kwh.den = 0 THEN "poor"
    ELSE IF RatioLE(cost_per_kwh, 12) THEN "excellent"
    ELSE IF RatioLE(cost_per_kwh, 20) THEN "good"
    ELSE IF RatioLE(cost_per_kwh, 35) THEN "fair"
    ELSE "poor"

\* the metric of lines 169-184; duration_minutes is <<>> for None
EfficiencyMetric(energy_kwh, cost, duration_minutes) ==
    LET cost_per_kwh == IF DecPos(energy_kwh)
                        THEN (IF cost.nan THEN NanRatio ELSE Ratio(cost, energy_kwh))
                        ELSE Inf
    IN  [kwh_per_dollar |-> IF DecPos(cost)
                            THEN (IF energy_kwh.nan THEN NanRatio ELSE Ratio(energy_kwh, cost))
                            ELSE [num |-> 0, den |-> 1],
         cost_per_kwh |-> cost_per_kwh,
         charging_speed_kw |->
             IF duration_minutes # <<>> /\ DecPos(duration_minutes[1])
             THEN (IF energy_kwh.nan THEN <<NanRatio>>
                   ELSE <<Ratio(DecMulInt(energy_kwh, 60), duration_minutes[1])>>)
             ELSE <<>>,
         efficiency_rating |-> _rate_efficiency(cost_per_kwh)]

\* the guard with energy_kwh < 0 in place of energy_kwh <= 0
calculate_efficiency_metrics_zero_energy(energy_kwh, cost, duration_minutes) ==
    IF DecLess(energy_kwh, Dec(0, 0)) \/ DecLess(cost, Dec(0, 0))
    THEN Raise("energy_kwh must be > 0 and cost must be >= 0")
    ELSE Return(EfficiencyMetric(energy_kwh, cost, duration_minutes))

\* a comparison with nan is false, so a nan argument passes the guard
calculate_efficiency_metrics(energy_kwh, cost, duration_minutes) ==
    IF (IsNum(energy_kwh) /\ ~DecPos(energy_kwh)) \/ DecLess(cost, Dec(0, 0))
    THEN Raise("energy_kwh must be > 0 and cost must be >= 0")
    ELSE Return(EfficiencyMetric(energy_kwh, cost, duration_minutes))

\* value_counts().head(3) of the categories: the most frequent first, equally
\* frequent ones in the order of their first row
PreferredTypes(rows) ==
    LET at(ct) == {i \in 1..Len(rows) : rows[i]["charger_type_category"] = ct}
        first(ct) == CHOOSE i \in at(ct) : \A j \in at(ct) : i <= j
        before(a, b) == \/ Cardinality(at(a)) > Cardinality(at(b))
                        \/ Cardinality(at(a)) = Cardinality(at(b)) /\ first(a) < first(b)
        cats == {rows[i]["charger_type_category"] : i \in 1..Len(rows)}
        rank(ct) == 1 + Cardinality({o \in cats : before(o, ct)})
    IN  [k \in 1..(IF Cardinality(cats) < 3 THEN Cardinality(cats) ELSE 3) |->
            CHOOSE ct \in cats : rank(ct) = k]

\* Timestamp.dayofweek, Monday being 0
DayOfWeek(date) ==
    LET t == <<0, 3, 2, 5, 0, 3, 5, 1, 4, 6, 2, 4>>
        y == IF date.mo < 3 THEN date.y - 1 ELSE date.y
    IN  ((y + (y \div 4) - (y \div 100) + (y \div 400) + t[date.mo] + date.d) + 6) % 7

\* lines 199-211: the timestamps of the model are at midnight, so hour 0 is
\* the one peak hour when any row is dated; an undated row is no weekend row
PeakHours(rows) ==
    IF \E i \in 1..Len(rows) : ~rows[i]["session_date"].nat THEN <<0>> ELSE <<>>

WeekendRatio(rows) ==
    LET wkd == Cardinality({i \in 1..Len(rows) :
                               /\ ~rows[i]["session_date"].nat
                               /\ DayOfWeek(rows[i]["session_date"]) >= 5})
        wkdy == Len(rows) - wkd
    IN  IF wkdy > 0 THEN [num |-> wkd \div GCD(wkd, wkdy), den |-> wkdy \div GCD(wkd, wkdy)]
        ELSE [num |-> 1, den |-> 1]

\* analyze_charging_patterns of rows, at least one, that have no SOC column
analyze_charging_patterns(rows) ==
    [avg_session_energy |-> Ratio(SumColumn(rows, "energy_added_kwh"), Dec(Len(rows), 0)),
     preferred_charger_types |-> IF "charger_type_category" \in DOMAIN rows[1]
                                 THEN PreferredTypes(rows) ELSE <<"unknown">>,
     peak_usage_hours |-> IF "session_date" \in DOMAIN rows[1]
                          THEN PeakHours(rows) ELSE <<>>,
     weekend_vs_weekday_ratio |-> IF "session_date" \in DOMAIN rows[1]
                                  THEN WeekendRatio(rows) ELSE [num |-> 1, den |-> 1],
     avg_soc_start |-> <<>>,
     avg_soc_end |-> <<>>]

\* the fraction n / d, d > 0, in lowest terms
Q(n, d) ==
    LET g == GCD(IF n < 0 THEN 0 - n ELSE n, d)
    IN  [num |-> n \div g, den |-> d \div g]

QAdd(a, b) == Q(a.num * b.den + b.num * a.den, a.den * b.den)
QSub(a, b) == Q(a.num * b.den - b.num * a.den, a.den * b.den)
QDivInt(a, n) == Q(a.num, a.den * n)

\* the value of a row in column c; cost_per_kwh is total_cost / energy_added_kwh
ColumnValue(row, c) ==
    IF c = "cost_per_kwh" THEN Ratio(row["total_cost"], row["energy_added_kwh"])
    ELSE Ratio(row[c], Dec(1, 0))

\* Series.mean of column c over some rows, at least one
RECURSIVE QSum(_, _)
QSum(rows, c) ==
    IF rows = <<>> THEN Q(0, 1) ELSE QAdd(ColumnValue(Head(rows), c), QSum(Tail(rows), c))

QMean(rows, c) == QDivInt(QSum(rows, c), Len(rows))

\* the months that resample("MS") leaves after dropna(how="all"): those with
\* at least one row, a row whose date is NaT being in no month
Months(rows) ==
    {<<rows[i]["session_date"].y, rows[i]["session_date"].mo>> :
        i \in {j \in 1..Len(rows) : ~rows[j]["session_date"].nat}}

MonthRows(rows, month) ==
    LET inMonth(row) == ~row["session_date"].nat
                            /\ <<row["session_date"].y, row["session_date"].mo>> = month
    IN  SelectSeq(rows, inMonth)

MonthBefore(a, b) == a[1] * 12 + a[2] < b[1] * 12 + b[2]

\* slope of lines 258-262 for the monthly means of column c: every month of
\* valid rows has a mean, so the series has no NaN to drop
Slope(rows, c) ==
    LET months == Months(rows)
        first == CHOOSE m \in months : \A o \in months : o = m \/ MonthBefore(m, o)
        last == CHOOSE m \in months : \A o \in months : o = m \/ MonthBefore(o, m)
    IN  QDivInt(QSub(QMean(MonthRows(rows, last), c), QMean(MonthRows(rows, first), c)),
                Max2(1, Cardinality(months) - 1))

\* analyze_temporal_trends asking for more than six rows
analyze_temporal_trends_seven_rows(columns, rows) ==
    IF "session_date" \notin SeqRange(columns) \/ Len(rows) <= 6 THEN <<>>
    ELSE IF Cardinality(Months(rows)) >= 3
         THEN [monthly_cost_trend |-> Slope(rows, "total_cost"),
               monthly_efficiency_trend |-> Slope(rows, "cost_per_kwh"),
               monthly_energy_trend |-> Slope(rows, "energy_added_kwh")]
    ELSE <<>>

\* the guard counts every row, dated or not
analyze_temporal_trends(columns, rows) ==
    IF "session_date" \notin SeqRange(columns) \/ Len(rows) < 6 THEN <<>>
    ELSE IF Cardinality(Months(rows)) >= 3
         THEN [monthly_cost_trend |-> Slope(rows, "total_cost"),
               monthly_efficiency_trend |-> Slope(rows, "cost_per_kwh"),
               monthly_energy_trend |-> Slope(rows, "energy_added_kwh")]
    ELSE <<>>

\* ChargerType values in the order in which groupby yields them
ChargerTypes == <<"dc_fast", "home_ac", "public_ac", "supercharger", "unknown">>

\* the keys of a by_charger_type dict in insertion order
TypeKeys(by_type) ==
    LET present(ct) == ct \in DOMAIN by_type
    IN  SelectSeq(ChargerTypes, present)

QLess(a, b) == a.num * b.den < b.num * a.den

\* min(values, key=cost_per_kwh) and max(...): the first key in insertion
\* order whose rate no other key undercuts, or exceeds
CheapestType(by_type) ==
    LET keys == TypeKeys(by_type)
        i == CHOOSE k \in 1..Len(keys) :
                 /\ \A o \in 1..Len(keys) :
                        ~QLess(by_type[keys[o]].cost_per_kwh, by_type[keys[k]].cost_per_kwh)
                 /\ \A o \in 1..(k - 1) :
                        QLess(by_type[keys[k]].cost_per_kwh, by_type[keys[o]].cost_per_kwh)
    IN  keys[i]

DearestType(by_type) ==
    LET keys == TypeKeys(by_type)
        i == CHOOSE k \in 1..Len(keys) :
                 /\ \A o \in 1..Len(keys) :
                        ~QLess(by_type[keys[k]].cost_per_kwh, by_type[keys[o]].cost_per_kwh)
                 /\ \A o \in 1..(k - 1) :
                        QLess(by_type[keys[o]].cost_per_kwh, by_type[keys[k]].cost_per_kwh)
    IN  keys[i]

\* next(k for k, v in items if v == m): the first key that holds a metric
\* equal to m
LabelOf(by_type, m) ==
    LET keys == TypeKeys(by_type)
    IN  keys[CHOOSE k \in 1..Len(keys) :
                 by_type[keys[k]] = m /\ \A o \in 1..(k - 1) : by_type[keys[o]] # m]

\* f"{x:.3f}" of a rate, as a number of thousandths
Milli(q) == (2000 * q.num + q.den) \div (2 * q.den)

\* delta > 0.10 on the floats worst - best
PriceGap(delta) == 10 * delta.num > delta.den

\* _recommendations on an analysis without SOC averages and peak hours: the
\* cost baseline, the charger type mix, the locations and the session size
_recommendations(a, rows) ==
    (IF RatioGT(a.overall_efficiency.cost_per_kwh, 25)
     THEN <<[tag |-> "high_cost_per_kwh"]>> ELSE <<>>)
        \o (IF DOMAIN a.by_charger_type # {}
            THEN LET best == a.by_charger_type[CheapestType(a.by_charger_type)]
                     worst == a.by_charger_type[DearestType(a.by_charger_type)]
                 IN  IF PriceGap(QSub(worst.cost_per_kwh, best.cost_per_kwh))
                     THEN <<[tag |-> "price_gap",
                             best_label |-> LabelOf(a.by_charger_type, best),
                             best_rate |-> Milli(best.cost_per_kwh),
                             worst_label |-> LabelOf(a.by_charger_type, worst),
                             worst_rate |-> Milli(worst.cost_per_kwh)]>>
                     ELSE <<>>
            ELSE <<>>)
        \o (IF Cardinality(DOMAIN a.by_location) > 2
            THEN <<[tag |-> "best_locations"]>> ELSE <<>>)
        \o (IF \E h \in SeqRange(a.charging_patterns.peak_usage_hours) : h \in 17..20
            THEN <<[tag |-> "peak_hours"]>> ELSE <<>>)
        \o (IF a.charging_patterns.avg_session_energy.num # 0
                /\ a.charging_patterns.avg_session_energy.num
                       < 10 * a.charging_patterns.avg_session_energy.den
            THEN <<[tag |-> "small_sessions"]>> ELSE <<>>)

\* _annual_savings_potential: 0.0 when there is no per-type breakdown, else
\* max(0, current - best) * total_energy * 365 / 90 * 0.6
_annual_savings_potential(a, total_energy) ==
    IF ~DecPos(total_energy) \/ DOMAIN a.by_charger_type = {} THEN Q(0, 1)
    ELSE LET best == a.by_charger_type[CheapestType(a.by_charger_type)].cost_per_kwh
             gap == QSub(a.overall_efficiency.cost_per_kwh, best)
             kwh == Ratio(total_energy, Dec(1, 0))
         IN  IF gap.num <= 0 THEN Q(0, 1)
             ELSE Q(gap.num * kwh.num * 365 * 6, gap.den * kwh.den * 90 * 10)

\* EfficiencyAnalysis is declared @dataclass(frozen=True)
Frozen == TRUE

\* setattr on an EfficiencyAnalysis
SetAttr(a, field, value) ==
    IF Frozen THEN Raise("FrozenInstanceError: cannot assign to field")
    ELSE Return([a EXCEPT ![field] = value])

EngineOutcome(r) ==
    IF r.ok THEN [outcome |-> "returned", value |-> r.val]
    ELSE [outcome |-> "raised", error |-> r.err]

\* the code point of a character of a location name: a space or a letter
Ord(c) ==
    IF c = " " THEN 32
    ELSE IF \E i \in 1..26 : UpperLetters[i] = c
         THEN 64 + (CHOOSE i \in 1..26 : UpperLetters[i] = c)
    ELSE IF \E i \in 1..26 : LowerLetters[i] = c
         THEN 96 + (CHOOSE i \in 1..26 : LowerLetters[i] = c)
    ELSE 0

\* a < b for two str values: the order in which groupby yields its groups
RECURSIVE TextLess(_, _)
TextLess(a, b) ==
    IF b = <<>> THEN FALSE
    ELSE IF a = <<>> THEN TRUE
    ELSE IF Head(a) = Head(b) THEN TextLess(Tail(a), Tail(b))
    ELSE Ord(Head(a)) < Ord(Head(b))

\* the rows of one location_name group
LocationRows(work, name) ==
    LET here(row) == row["location_name"] = name
    IN  SelectSeq(work, here)

\* the share test with > in place of >=
AtLeastFivePercent_strict(energy, total_energy) ==
    DecLess(total_energy, DecMulInt(energy, 20))

\* energy >= 0.05 * total_energy. The float 0.05 is 1/20 * (1 + 2^-54), so the
\* product rounds to total_energy / 20 whenever that is a float, and the test
\* is 20 * energy >= total_energy on sums that are exact in binary64
AtLeastFivePercent(energy, total_energy) ==
    ~DecLess(DecMulInt(energy, 20), total_energy)

\* lines 420-449: the groups of the non-null names in sorted order, each
\* stored under its stripped name when that is not empty and the group has
\* its share of the energy; a later group replaces an earlier one of the
\* same stripped name
ByLocation(work, total_energy) ==
    LET groups == {work[i]["location_name"] : i \in 1..Len(work)} \ {Missing}
        energy(g) == SumColumn(LocationRows(work, g), "energy_added_kwh")
        emitted == {g \in groups :
                        Strip(g) # <<>> /\ AtLeastFivePercent(energy(g), total_energy)}
        last(k) == CHOOSE g \in emitted :
                       /\ Strip(g) = k
                       /\ \A h \in emitted : Strip(h) = k => (h = g \/ TextLess(h, g))
    IN  [k \in {Strip(g) : g \in emitted} |->
            calculate_efficiency_metrics(
                energy(last(k)), SumColumn(LocationRows(work, last(k)), "total_cost"),
                <<>>).val]

\* the alternatives of the four patterns of categorize_charger_type
SuperchargerWords ==
    {<<"\\b", "s", "u", "p", "e", "r", "c", "h", "a", "r", "g", "e", "r", "\\b">>,
     <<"\\b", "t", "e", "s", "l", "a", "\\s*", "s", "c", "\\b">>,
     <<"\\b", "v", "\\d", "\\b">>}

DcFastWords ==
    {<<"\\b", "d", "c", "\\b">>, <<"\\b", "f", "a", "s", "t", "\\b">>,
     <<"\\b", "r", "a", "p", "i", "d", "\\b">>, <<"\\b", "c", "c", "s", "\\b">>,
     <<"\\b", "c", "h", "a", "d", "e?", "m", "o", "\\b">>}

HomeWords ==
    {<<"\\b", "h", "o", "m", "e", "\\b">>,
     <<"\\b", "r", "e", "s", "i", "d", "e", "n", "t", "i", "a", "l", "\\b">>,
     <<"\\b", "g", "a", "r", "a", "g", "e", "\\b">>}

PublicWords ==
    {<<"\\b", "p", "u", "b", "l", "i", "c", "\\b">>,
     <<"\\b", "l", "e", "v", "e", "l", "\\s*", "2", "\\b">>,
     <<"\\b", "l", "2", "\\b">>, <<"\\b", "a", "c", "\\b">>}

\* the categorizer with thresholds that include their bound (>= in place of >)
categorize_charger_type_at_least(charger_info, energy_kwh, duration_minutes) ==
    LET lowered == IF charger_info = Missing THEN <<>> ELSE Lower(charger_info)
        found(words) == \E w \in words : ReSearch(w, lowered)
        reaches(kw) == ~DecLess(DecMulInt(energy_kwh, 60), DecMulInt(duration_minutes[1], kw))
    IN  IF found(SuperchargerWords) THEN "supercharger"
        ELSE IF found(DcFastWords) THEN "dc_fast"
        ELSE IF found(HomeWords) THEN "home_ac"
        ELSE IF found(PublicWords) THEN "public_ac"
        ELSE IF duration_minutes # <<>> /\ DecPos(duration_minutes[1]) /\ DecPos(energy_kwh)
             THEN (IF reaches(120) THEN "supercharger"
                   ELSE IF reaches(80) THEN "dc_fast"
                   ELSE IF reaches(15) THEN "public_ac"
                   ELSE "home_ac")
        ELSE "unknown"

\* categorize_charger_type: the first pattern found in the lowered text,
\* else the power energy * 60 / duration when both are positive, else
\* unknown. An absent charger_info is the text "" (None) or "nan", which no
\* pattern matches; duration_minutes is <<>> for None
categorize_charger_type(charger_info, energy_kwh, duration_minutes) ==
    LET lowered == IF charger_info = Missing THEN <<>> ELSE Lower(charger_info)
        found(words) == \E w \in words : ReSearch(w, lowered)
        above(kw) == DecLess(DecMulInt(duration_minutes[1], kw), DecMulInt(energy_kwh, 60))
    IN  IF found(SuperchargerWords) THEN "supercharger"
        ELSE IF found(DcFastWords) THEN "dc_fast"
        ELSE IF found(HomeWords) THEN "home_ac"
        ELSE IF found(PublicWords) THEN "public_ac"
        ELSE IF duration_minutes # <<>> /\ DecPos(duration_minutes[1]) /\ DecPos(energy_kwh)
             THEN (IF above(120) THEN "supercharger"
                   ELSE IF above(80) THEN "dc_fast"
                   ELSE IF above(15) THEN "public_ac"
                   ELSE "home_ac")
        ELSE "unknown"

\* lines 384-394: the charger_type_category column, on tables that have no
\* charging_duration_minutes column
Categorized(work) ==
    [i \in 1..Len(work) |->
        [c \in DOMAIN work[i] \cup {"charger_type_category"} |->
            IF c = "charger_type_category"
            THEN categorize_charger_type(work[i]["charger_type"],
                                         work[i]["energy_added_kwh"], <<>>)
            ELSE work[i][c]]]

\* the rows of one charger_type_category group
TypeRows(work, ct) ==
    LET here(row) == row["charger_type_category"] = ct
    IN  SelectSeq(work, here)

\* the breakdown with each category rated by its first session alone
ByChargerType_first_session(work) ==
    LET groups == {work[i]["charger_type_category"] : i \in 1..Len(work)}
        first(ct) == TypeRows(work, ct)[1]
    IN  [ct \in {g \in groups : DecPos(first(g)["energy_added_kwh"])} |->
            calculate_efficiency_metrics(
                first(ct)["energy_added_kwh"], first(ct)["total_cost"], <<>>).val]

\* lines 404-418: one metric per category whose summed energy is positive
ByChargerType(work) ==
    LET groups == {work[i]["charger_type_category"] : i \in 1..Len(work)}
        energy(ct) == SumColumn(TypeRows(work, ct), "energy_added_kwh")
    IN  [ct \in {g \in groups : DecPos(energy(g))} |->
            calculate_efficiency_metrics(
                energy(ct), SumColumn(TypeRows(work, ct), "total_cost"), <<>>).val]

\* lines 397-467 on the rows that passed the filter: the outcome, and the
\* EfficiencyAnalysis object constructed at line 455 when that line is reached
Analyze(columns, filtered) ==
    LET work == IF "charger_type" \in SeqRange(columns) THEN Categorized(filtered)
                ELSE filtered
        total_energy == SumColumn(work, "energy_added_kwh")
        total_cost == SumColumn(work, "total_cost")
        overall == calculate_efficiency_metrics(total_energy, total_cost, <<>>)
        built == [overall_efficiency |-> overall.val,
                  by_charger_type |-> IF "charger_type" \in SeqRange(columns)
                                      THEN ByChargerType(work) ELSE <<>>,
                  by_location |-> IF "location_name" \in SeqRange(columns)
                                  THEN ByLocation(work, total_energy) ELSE <<>>,
                  temporal_trends |-> analyze_temporal_trends(columns, work),
                  charging_patterns |-> analyze_charging_patterns(work),
                  recommendations |-> <<>>,
                  cost_savings_potential |-> Q(0, 1)]
        \* line 465 evaluates _recommendations, then assigns
        recs == _recommendations(built, work)
        first == SetAttr(built, "recommendations", recs)
        second == SetAttr(first.val, "cost_savings_potential",
                          _annual_savings_potential(first.val, total_energy))
    IN  IF ~overall.ok THEN [r |-> overall, built |-> <<>>, recs |-> <<>>]
        ELSE IF ~first.ok THEN [r |-> first, built |-> <<built>>, recs |-> <<recs>>]
        ELSE [r |-> second, built |-> <<built>>, recs |-> <<recs>>]

analyze_efficiency(table) ==
    LET valid(row) == DecPos(row["energy_added_kwh"]) /\ DecNonNeg(row["total_cost"])
        work == SelectSeq(table.rows, valid)
    IN  IF Empty(table) THEN EngineOutcome(Raise("No data available for analysis"))
        ELSE IF work = <<>>
        THEN EngineOutcome(Raise("All rows were invalid after basic normalization."))
        ELSE \* the object built at line 455 stays in the state beside the outcome
             \* and so does the list _recommendations returned at line 465
             Only({IF a.r.ok
                   THEN [outcome |-> "returned", value |-> a.r.val, built |-> a.built,
                         recs |-> a.recs]
                   ELSE [outcome |-> "raised", error |-> a.r.err, built |-> a.built,
                         recs |-> a.recs] :
                       a \in {Analyze(table.columns, work)}})

\* the numeric cells of the tables the engine is given
EnergyCells == {NaN, Dec(0, 0), Dec(125, 1), Dec(60, 0)}
CostCells == {NaN, Dec(0 - 1, 0), Dec(0, 0), Dec(5, 0), Dec(25, 0)}

\* the cells of the tables that have a location_name column: energies that
\* make a share of exactly 5% (1 of 20), less (1 of 21) and more (1 of 2), and
\* names with and without surrounding blanks, blank ones and absent ones
LocatedEnergyCells == {Dec(0, 0), Dec(1, 0), Dec(19, 0), Dec(20, 0)}
LocationCells == {Missing, <<" ">>, <<"H", "o", "m", "e">>, <<"H", "o", "m", "e", " ">>,
                  <<"W", "o", "r", "k">>}

\* the cells of the tables that have a charger_type column: 10 kWh sessions
\* at 0.15, 0.25 and 0.40 $/kWh, and texts of three categories, one that no
\* pattern matches and absent ones
TypedCostCells == {Dec(15, 1), Dec(25, 1), Dec(4, 0)}
ChargerCells == {Missing, <<"H", "o", "m", "e">>, <<"T", "e", "s", "l", "a", " ", "S", "C">>,
                 <<"C", "H", "A", "d", "e", "M", "O">>, <<"H", "o", "m", "e", "y">>}

EngineTables ==
    {[columns |-> <<"energy_added_kwh", "total_cost", "charger_type">>, rows |-> rows] :
        rows \in UNION {[1..n -> [energy_added_kwh : {Dec(10, 0)},
                                  total_cost : TypedCostCells,
                                  charger_type : ChargerCells]] :
                            n \in 1..MaxSessions}}
    \cup
    {[columns |-> <<"energy_added_kwh", "total_cost">>, rows |-> rows] :
        rows \in UNION {[1..n -> [energy_added_kwh : EnergyCells, total_cost : CostCells]] :
                            n \in 0..MaxSessions}}
    \cup
    {[columns |-> <<"energy_added_kwh", "total_cost", "location_name">>, rows |-> rows] :
        rows \in UNION {[1..n -> [energy_added_kwh : LocatedEnergyCells,
                                  total_cost : {Dec(5, 0)},
                                  location_name : LocationCells]] :
                            n \in 1..MaxSessions}}

\* one call of analyze_efficiency on the shared calculator
AnalyzeEfficiency ==
    \E table \in EngineTables :
        /\ analysis = NoAnalysis /\ metric = NoMetric
        /\ df' = table
        /\ analysis' = analyze_efficiency(table)
        /\ UNCHANGED <<parserVars, csvVars, metric, trends, pattern, category, savings, routerVars>>

\* the arguments of a direct call of calculate_efficiency_metrics
EnergyArgs == {NaN, Dec(0 - 1, 0), Dec(0, 0), Dec(125, 1), Dec(60, 0)}
CostArgs == {NaN, Dec(0 - 1, 0), Dec(0, 0), Dec(5, 0), Dec(25, 0)}
DurationArgs == {<<>>, <<NaN>>, <<Dec(0 - 90, 0)>>, <<Dec(0, 0)>>, <<Dec(90, 0)>>}

\* one call of calculate_efficiency_metrics on the shared calculator
CalculateMetrics ==
    \E energy_kwh \in EnergyArgs, cost \in CostArgs, duration_minutes \in DurationArgs :
        /\ metric = NoMetric /\ analysis = NoAnalysis
        /\ metric' = [outcome |-> "called", energy_kwh |-> energy_kwh, cost |-> cost,
                      duration_minutes |-> duration_minutes,
                      out |-> calculate_efficiency_metrics(energy_kwh, cost, duration_minutes)]
        /\ UNCHANGED <<parserVars, csvVars, df, analysis, trends, pattern, category, savings, routerVars>>

NextAnalyze == AnalyzeEfficiency \/ CalculateMetrics

SpecAnalyze == Init /\ [][NextAnalyze]_vars

\* the rows of the table given that have energy > 0 and cost >= 0
ValidSessions ==
    LET valid(row) == DecPos(row["energy_added_kwh"]) /\ DecNonNeg(row["total_cost"])
    IN  SelectSeq(df.rows, valid)

\* C1 as the specification states it: on a table with at least one row of
\* energy > 0 and cost >= 0, analyze_efficiency returns an analysis whose
\* overall cost_per_kwh is the summed cost over the summed energy of the
\* valid rows, with recommendations and cost_savings_potential filled in
\* from the fields already built.
C1_AsStated ==
    (analysis # NoAnalysis /\ ValidSessions # <<>>) =>
        /\ analysis.outcome = "returned"
        /\ analysis.value.overall_efficiency.cost_per_kwh =
               Ratio(SumColumn(ValidSessions, "total_cost"),
                     SumColumn(ValidSessions, "energy_added_kwh"))
        /\ analysis.value.recommendations = _recommendations(analysis.value, ValidSessions)
        /\ analysis.value.cost_savings_potential = Q(0, 1)

\* the object analyze_efficiency constructed at line 455, when it got there
Built == analysis # NoAnalysis /\ "built" \in DOMAIN analysis /\ analysis.built # <<>>

\* the summed energy of the valid rows whose location_name is name
EnergyAt(name) ==
    LET here(row) == row["location_name"] = name
    IN  SumColumn(SelectSeq(ValidSessions, here), "energy_added_kwh")

\* the location names of the valid rows, absent ones left out
Locations == {ValidSessions[i]["location_name"] : i \in 1..Len(ValidSessions)} \ {Missing}

\* x >= 5% of the energy of all valid rows, located or not
FivePercent(x) ==
    LET total == SumColumn(ValidSessions, "energy_added_kwh")
        k == Max2(x.s, total.s)
    IN  20 * AtScale(x, k) >= AtScale(total, k)

C13_EngineRaises ==
    /\ (analysis # NoAnalysis /\ Empty(df)) =>
           analysis = [outcome |-> "raised", error |-> "No data available for analysis"]
    /\ (analysis # NoAnalysis /\ ~Empty(df) /\ ValidSessions = <<>>) =>
           analysis = [outcome |-> "raised",
                       error |-> "All rows were invalid after basic normalization."]
    /\ metric # NoMetric =>
           LET rejected == \/ IsNum(metric.energy_kwh) /\ metric.energy_kwh.m <= 0
                           \/ IsNum(metric.cost) /\ metric.cost.m < 0
           IN  /\ rejected <=> ~metric.out.ok
               /\ ~rejected => DOMAIN metric.out.val =
                                   {"kwh_per_dollar", "cost_per_kwh", "charging_speed_kw",
                                    "efficiency_rating"}

C13_Witness ==
    /\ metric # NoMetric
    /\ metric.energy_kwh = Dec(0, 0) /\ metric.cost = Dec(5, 0)
    /\ ~metric.out.ok

\* the price-gap notes in the list _recommendations returned
PriceGapNotes ==
    LET gap(r) == r.tag = "price_gap"
    IN  SelectSeq(analysis.recs[1], gap)

\* some category costs at least 0.10 $/kWh more than another one
GapOfTenCents(by_type) ==
    \E lo \in DOMAIN by_type, hi \in DOMAIN by_type :
        10 * (by_type[hi].cost_per_kwh.num * by_type[lo].cost_per_kwh.den
                  - by_type[lo].cost_per_kwh.num * by_type[hi].cost_per_kwh.den)
            >= by_type[hi].cost_per_kwh.den * by_type[lo].cost_per_kwh.den

\* C20 as the specification states it: the recommendations hold the
\* charger-type price-gap note, which names a cheapest and a most expensive
\* category with their rates, exactly when the highest and the lowest
\* per-category cost_per_kwh differ by 0.10 $/kWh or more, a gap of exactly
\* 0.10 included; there is no such note when the gap is smaller or when
\* there is no charger-type breakdown.
C20_AsStated ==
    Built =>
        LET by_type == analysis.built[1].by_charger_type
        IN  /\ Len(PriceGapNotes) = (IF GapOfTenCents(by_type) THEN 1 ELSE 0)
            /\ \A i \in 1..Len(PriceGapNotes) :
                   LET note == PriceGapNotes[i]
                   IN  /\ note.best_label \in DOMAIN by_type
                       /\ note.worst_label \in DOMAIN by_type
                       /\ \A k \in DOMAIN by_type :
                              /\ ~QLess(by_type[k].cost_per_kwh,
                                        by_type[note.best_label].cost_per_kwh)
                              /\ ~QLess(by_type[note.worst_label].cost_per_kwh,
                                        by_type[k].cost_per_kwh)
                       /\ note.best_rate = Milli(by_type[note.best_label].cost_per_kwh)
                       /\ note.worst_rate = Milli(by_type[note.worst_label].cost_per_kwh)

-----------------------------------------------------------------------------
(* analyze_temporal_trends on tables of valid sessions, as analyze_efficiency *)
(* hands them over: energy > 0, cost >= 0, and a session_date that is a       *)
(* timestamp or NaT. The rows of a table are in one fixed order of kinds;     *)
(* the method sorts the rows by date itself.                                  *)

MaxTrendRows == 7

Day(y, mo, d) == [nat |-> FALSE, y |-> y, mo |-> mo, d |-> d]

Session(date, energy, cost) ==
    [session_date |-> date, energy_added_kwh |-> Dec(energy, 0), total_cost |-> Dec(cost, 0)]

\* two days of January, one of February, none of March, two of April, no date
TrendKinds ==
    <<Session(Day(2024, 1, 5), 10, 2), Session(Day(2024, 1, 20), 20, 8),
      Session(Day(2024, 2, 10), 10, 4),
      Session(Day(2024, 4, 1), 40, 4), Session(Day(2024, 4, 15), 10, 6),
      Session(NaT, 10, 2)>>

\* the sequences of n kinds in ascending order
RECURSIVE Ascending(_)
Ascending(n) ==
    IF n = 0 THEN {<<>>}
    ELSE UNION {{Append(s, k) : k \in (IF s = <<>> THEN 1 ELSE s[Len(s)])..Len(TrendKinds)} :
                    s \in Ascending(n - 1)}

DatedColumns == <<"session_date", "energy_added_kwh", "total_cost">>
UndatedColumns == <<"energy_added_kwh", "total_cost">>

TrendTables ==
    {[columns |-> cols, rows |-> [i \in 1..Len(s) |-> TrendKinds[s[i]]]] :
        cols \in {DatedColumns}, s \in UNION {Ascending(n) : n \in 0..MaxTrendRows}}
    \cup
    {[columns |-> UndatedColumns,
      rows |-> [i \in 1..n |-> [c \in SeqRange(UndatedColumns) |-> TrendKinds[1 + (i % 5)][c]]]] :
        n \in 5..MaxTrendRows}

\* one call of analyze_temporal_trends on the shared calculator
AnalyzeTrends ==
    \E table \in TrendTables :
        /\ trends = NoTrends
        /\ df' = table
        /\ trends' = [called |-> TRUE,
                      out |-> analyze_temporal_trends(table.columns, table.rows)]
        /\ UNCHANGED <<parserVars, csvVars, analysis, metric, pattern, category, savings, routerVars>>

NextTrends == AnalyzeTrends

SpecTrends == Init /\ [][NextTrends]_vars

\* the rows of the table given whose date is a timestamp
DatedRows ==
    LET dated(row) == ~row["session_date"].nat
    IN  IF "session_date" \in SeqRange(df.columns) THEN SelectSeq(df.rows, dated) ELSE <<>>

\* the calendar months that hold a dated row, in order
ObservedMonths == {<<DatedRows[i]["session_date"].y, DatedRows[i]["session_date"].mo>> :
                      i \in 1..Len(DatedRows)}

\* the mean of column c (cost_per_kwh: cost over energy, row by row) over the
\* dated rows of a month, as numerator and denominator; the cells are whole
\* numbers
RECURSIVE StatedSum(_, _)
StatedSum(rows, c) ==
    IF rows = <<>> THEN <<0, 1>>
    ELSE LET r == Head(rows)
             v == IF c = "cost_per_kwh"
                  THEN <<AtScale(r["total_cost"], 0), AtScale(r["energy_added_kwh"], 0)>>
                  ELSE <<AtScale(r[c], 0), 1>>
             rest == StatedSum(Tail(rows), c)
             n == v[1] * rest[2] + rest[1] * v[2]
             d == v[2] * rest[2]
         IN  <<n \div GCD(n, d), d \div GCD(n, d)>>

StatedMean(month, c) ==
    LET inMonth(row) == <<row["session_date"].y, row["session_date"].mo>> = month
        rows == SelectSeq(DatedRows, inMonth)
        sum == StatedSum(rows, c)
    IN  <<sum[1], sum[2] * Len(rows)>>

\* value = (last monthly mean - first monthly mean) / (observed months - 1)
StatedSlope(value, c) ==
    LET first == CHOOSE m \in ObservedMonths :
                     \A o \in ObservedMonths : o = m \/ MonthBefore(m, o)
        last == CHOOSE m \in ObservedMonths :
                    \A o \in ObservedMonths : o = m \/ MonthBefore(o, m)
        a == StatedMean(last, c)
        b == StatedMean(first, c)
    IN  value.num * a[2] * b[2] * (Cardinality(ObservedMonths) - 1)
            = value.den * (a[1] * b[2] - b[1] * a[2])

\* C15 as the specification states it: the trends are empty when the table has
\* no date column or fewer than 6 usable dated rows; with at least 6 rows
\* over at least 3 distinct calendar months they are the three slopes
\* monthly_cost_trend, monthly_efficiency_trend and monthly_energy_trend, each
\* (last observed monthly mean - first observed monthly mean) / (observed
\* months - 1).
C15_AsStated ==
    trends.called =>
        /\ ("session_date" \notin SeqRange(df.columns) \/ Len(DatedRows) < 6) =>
               trends.out = <<>>
        /\ (Len(DatedRows) >= 6 /\ Cardinality(ObservedMonths) >= 3) =>
               /\ DOMAIN trends.out = {"monthly_cost_trend", "monthly_efficiency_trend",
                                        "monthly_energy_trend"}
               /\ StatedSlope(trends.out.monthly_cost_trend, "total_cost")
               /\ StatedSlope(trends.out.monthly_efficiency_trend, "cost_per_kwh")
               /\ StatedSlope(trends.out.monthly_energy_trend, "energy_added_kwh")

\* C15, amended: the trends are empty when the table has no date column or
\* fewer than 6 rows, a row with an unusable date counting as a row; with at
\* least 6 rows whose dated ones cover at least 3 distinct calendar months
\* they are the three slopes, each (last observed monthly mean - first
\* observed monthly mean) / (observed months - 1).
C15_Trends ==
    trends.called =>
        /\ ("session_date" \notin SeqRange(df.columns) \/ Len(df.rows) < 6) =>
               trends.out = <<>>
        /\ ("session_date" \in SeqRange(df.columns) /\ Len(df.rows) >= 6
                /\ Cardinality(ObservedMonths) >= 3) =>
               /\ DOMAIN trends.out = {"monthly_cost_trend", "monthly_efficiency_trend",
                                        "monthly_energy_trend"}
               /\ StatedSlope(trends.out.monthly_cost_trend, "total_cost")
               /\ StatedSlope(trends.out.monthly_efficiency_trend, "cost_per_kwh")
               /\ StatedSlope(trends.out.monthly_energy_trend, "energy_added_kwh")

\* six rows, five of them dated, over January, February and April
C15_Witness ==
    /\ trends.called
    /\ Len(df.rows) = 6 /\ Len(DatedRows) = 5
    /\ ObservedMonths = {<<2024, 1>>, <<2024, 2>>, <<2024, 4>>}
    /\ DOMAIN trends.out = {"monthly_cost_trend", "monthly_efficiency_trend",
                            "monthly_energy_trend"}

-----------------------------------------------------------------------------
(* _clean_data applied twice: to a table as process_csv hands it over (read, *)
(* columns renamed), and then to its own output.                             *)

MaxCleanRows == 2

\* the raw rows, and a valid session that cost a thousandth of a cent
CleanKinds ==
    RowKinds \o
    <<[date |-> <<"2", "0", "2", "4", "-", "0", "3", "-", "0", "9">>,
       energy |-> <<"7", ".", "5">>,
       cost |-> <<"$", "0", ".", "0", "0", "0", "0", "1">>,
       soc |-> <<"0", ".", "0", "0", "5">>,
       dur |-> <<"9", "0">>,
       loc |-> <<"H", "o", "m", "e">>]>>

CleanInputs ==
    {_normalize_columns(RawTableOf(CleanKinds, MobileColumns, kinds), "tesla_mobile") :
        kinds \in UNION {[1..n -> 1..Len(CleanKinds)] : n \in 0..MaxCleanRows}}

\* _clean_data on a table, and _clean_data on what it returned
CleanTwice ==
    \E table \in CleanInputs :
        /\ cleaned = NoClean
        /\ \E once \in {_clean_data(table)} :
               cleaned' = [called |-> TRUE, input |-> table, once |-> once,
                           twice |-> CleanAgain(once)]
        /\ UNCHANGED <<parserVars, source, result, stages, engineVars, routerVars>>

NextClean == CleanTwice

SpecClean == Init /\ [][NextClean]_vars

\* C16 as the specification states it: cleaning the cleaner's output gives the
\* same number of rows; the second pass drops no row as invalid and removes
\* none as a duplicate
C16_AsStated ==
    cleaned.called => Len(cleaned.twice.rows) = Len(cleaned.once.rows)

-----------------------------------------------------------------------------
(* The SOC conversion: _to_percent on one cell, and the cleaner's           *)
(* _to_percent(...).clip(0, 100) on one cell of an SOC column               *)

MaxPctLen == 3

PctChars == {"0", "1", "5", ".", "%", "-", " "}

T_0d85  == <<"0", ".", "8", "5">>       \* "0.85"
T_85    == <<"8", "5">>                 \* "85"
T_85pct == <<"8", "5", "%">>            \* "85%"
T_1     == <<"1">>                      \* "1"
T_150   == <<"1", "5", "0">>            \* "150"

PercentInputs ==
    Strings(PctChars, MaxPctLen) \cup {T_0d85, T_85, T_85pct, T_150, T_abc, Missing}

ParsePercent ==
    \E x \in PercentInputs :
        /\ parser = "none"
        /\ parser' = "_to_percent" /\ text' = x /\ parsed' = _to_percent(x)
        /\ UNCHANGED <<csvVars, engineVars, routerVars>>

\* lines 298-300 on a one-row table whose only column is start_soc_percent
CleanSoc ==
    \E x \in PercentInputs :
        /\ parser = "none"
        /\ parser' = "soc" /\ text' = x
        /\ parsed' = CleanCell([start_soc_percent |-> x], "start_soc_percent")
        /\ UNCHANGED <<csvVars, engineVars, routerVars>>

NextPercent == ParsePercent \/ CleanSoc

SpecPercent == InitParsers /\ [][NextPercent]_vars

\* the text with "%" and whitespace removed, read as a number
PercentNumber(x) ==
    LET drop(c) == c \notin Whitespace \cup {"%"}
    IN  ToNumeric(SelectSeq(AsStr(x), drop))

\* C11: an SOC text, stripped of "%" and whitespace and read as the number v,
\* parses to 100 * v when v <= 1.0 and to v otherwise, and the cleaner clamps
\* that to [0, 100]: "0.85", "85" and "85%" give 85, "1" gives 100, and every
\* SOC value the cleaner leaves that is not missing lies in [0, 100].
C11_Percent ==
    parser \in {"_to_percent", "soc"} =>
        LET v == PercentNumber(text)
            k == Max2(v.s, 0)
            scaled == IF IsNum(v) /\ AtScale(v, k) <= Pow10(k) THEN Dec(v.m * 100, v.s) ELSE v
        IN  /\ parser = "_to_percent" => parsed = scaled
            /\ text \in {T_0d85, T_85, T_85pct} => parsed = Dec(85, 0)
            /\ text = T_1 => parsed = Dec(100, 0)
            /\ parser = "soc" =>
                   /\ IsNum(parsed) = IsNum(v)
                   /\ IsNum(parsed) =>
                          /\ parsed.m >= 0 /\ ~DecLess(Dec(100, 0), parsed)
                          /\ parsed = IF DecLess(scaled, Dec(0, 0)) THEN Dec(0, 0)
                                      ELSE IF DecLess(Dec(100, 0), scaled) THEN Dec(100, 0)
                                      ELSE scaled

\* the cleaner has converted "1", the largest value read as a fraction
C11_Witness ==
    /\ parser = "soc" /\ text = T_1 /\ parsed = Dec(100, 0)

-----------------------------------------------------------------------------
(* The upload endpoint. A request is a coroutine that yields at the read of  *)
(* the body; several worker processes serve requests over one temporary      *)
(* directory, so the steps of different requests interleave.                 *)

MaxRequests == 2

\* the names NamedTemporaryFile can pick. It takes a name no existing file
\* has; names mean nothing, so the first free one stands for any of them
Paths == 1..MaxRequests

FreshPath(taken) == CHOOSE p \in Paths \ taken : \A q \in Paths \ taken : p <= q

\* AnalysisRequest: the bounds are <<>> when not given, the allow-list is
\* <<>> when absent or empty
AnalysisRequest(date_range_start, date_range_end, location_filter) ==
    [date_range_start |-> date_range_start, date_range_end |-> date_range_end,
     location_filter |-> location_filter]

\* _apply_filters on a table whose session_date column holds timestamps: a
\* comparison with NaT is false, so a bound drops the undated rows
_apply_filters(table, req) ==
    LET dated == "session_date" \in SeqRange(table.columns)
                     /\ (req.date_range_start # <<>> \/ req.date_range_end # <<>>)
        located == "location_name" \in SeqRange(table.columns) /\ req.location_filter # <<>>
        keep(row) ==
            /\ dated => /\ ~row["session_date"].nat
                        /\ req.date_range_start # <<>> =>
                               DateLE(req.date_range_start[1], row["session_date"])
                        /\ req.date_range_end # <<>> =>
                               DateLE(row["session_date"], req.date_range_end[1])
            /\ located => row["location_name"] \in SeqRange(req.location_filter)
    IN  [columns |-> table.columns, rows |-> SelectSeq(table.rows, keep)]

\* what a request answers: the status code and the stage that produced it
Response(status, stage) == [status |-> status, stage |-> stage]

NoResponse == Response(0, "none")

\* lines 110-181 for the file at temp_path: the response, the ProcessingResult
\* and the tables handed to the engine. validation is what validate_csv_file
\* did: "valid", "invalid", or "raises"
UploadBody(validation, src, req) ==
    IF validation = "raises"
    THEN [response |-> Response(500, "unexpected"), result |-> <<>>, engine |-> <<>>]
    ELSE IF validation = "invalid"
    THEN [response |-> Response(400, "validation"), result |-> <<>>, engine |-> <<>>]
    ELSE LET processing_result == process_csv(src).result
         IN  IF ~processing_result.success \/ processing_result.data = <<>>
             THEN [response |-> Response(422, "processing"),
                   result |-> <<processing_result>>, engine |-> <<>>]
             ELSE IF processing_result.quality = "poor"
             THEN [response |-> Response(422, "quality"),
                   result |-> <<processing_result>>, engine |-> <<>>]
             ELSE LET filtered == _apply_filters(processing_result.data[1], req)
                  IN  IF Empty(filtered)
                      THEN [response |-> Response(422, "filters"),
                            result |-> <<processing_result>>, engine |-> <<>>]
                      ELSE [response |->
                                IF analyze_efficiency(filtered).outcome = "returned"
                                THEN Response(200, "success")
                                ELSE Response(500, "unexpected"),
                            result |-> <<processing_result>>,
                            engine |-> <<filtered>>]

Filenames == {<<>>, <<"a", ".", "t", "x", "t">>, <<"a", ".", "c", "s", "v">>,
              <<"A", ".", "C", "S", "V">>}

EndsWithCsv(name) ==
    Len(name) >= 4 /\ SubSeq(name, Len(name) - 3, Len(name)) = <<".", "c", "s", "v">>

January(d) == [nat |-> FALSE, y |-> 2024, mo |-> 1, d |-> d]

AnalysisRequests ==
    {AnalysisRequest(<<>>, <<>>, <<>>),
     AnalysisRequest(<<January(1)>>, <<January(31)>>, <<<<"H", "o", "m", "e">>>>)}

\* what the uploaded bytes hold: a generic export of two sessions, of
\* 2024-01-05 and 2024-02-10, that has no location column
UploadTables == {RawTable(GenericColumns, <<1, 3>>)}

\* the request passes the filename guard of line 84 or is answered 400
Arrive ==
    \E filename \in Filenames, req \in AnalysisRequests :
        /\ Len(requests) < MaxRequests
        /\ requests' = Append(requests,
               [pc |-> IF EndsWithCsv(Lower(filename)) THEN "read" ELSE "done",
                req |-> req, content |-> <<>>,
                temp_path |-> 0, created |-> 0, unlinked |-> {},
                response |-> IF EndsWithCsv(Lower(filename)) THEN NoResponse
                             ELSE Response(400, "filename"),
                result |-> <<>>])
        /\ UNCHANGED <<parserVars, csvVars, engineVars, files, calls, serviceVars>>

\* lines 88-101: the body is read and its size checked
ReadBody ==
    \E i \in 1..Len(requests), read \in {"raises", "empty", "too_large", "stored"},
       body \in UploadTables :
        /\ requests[i].pc = "read"
        /\ requests' = [requests EXCEPT ![i] =
               IF read = "stored"
               THEN [@ EXCEPT !.pc = "save", !.content = <<body>>]
               ELSE [@ EXCEPT !.pc = "done", !.response = Response(400, read)]]
        /\ UNCHANGED <<parserVars, csvVars, engineVars, files, calls, serviceVars>>

\* lines 104-108: temp_path is bound only after the write; an exception of
\* NamedTemporaryFile or of write goes to the handler of line 184
SaveTemp ==
    \E i \in 1..Len(requests), outcome \in {"create_raises", "write_raises", "written"} :
        /\ requests[i].pc = "save"
        /\ \E p \in {FreshPath(DOMAIN files)} :
               /\ files' = IF outcome = "create_raises" THEN files
                           ELSE [q \in DOMAIN files \cup {p} |->
                                    IF q = p THEN i ELSE files[q]]
               /\ requests' = [requests EXCEPT ![i] =
                      IF outcome = "written"
                      THEN [@ EXCEPT !.pc = "process", !.temp_path = p, !.created = p]
                      ELSE [@ EXCEPT !.pc = "finally",
                                     !.response = Response(500, "unexpected"),
                                     !.created = IF outcome = "write_raises" THEN p ELSE 0]]
        /\ UNCHANGED <<parserVars, csvVars, engineVars, calls, serviceVars>>

\* lines 110-186 in one go: validation, processing, quality, filters, engine
Process ==
    \E i \in 1..Len(requests), validation \in {"valid", "invalid", "raises"} :
        /\ requests[i].pc = "process"
        /\ \E out \in {UploadBody(validation,
                                  Source("path", requests[i].temp_path \in DOMAIN files,
                                         ".csv", FALSE, requests[i].content),
                                  requests[i].req)} :
               /\ requests' = [requests EXCEPT ![i] =
                      [@ EXCEPT !.pc = "finally", !.response = out.response,
                                !.result = out.result]]
               /\ calls' = calls \o [k \in 1..Len(out.engine) |->
                                        [request |-> i, table |-> out.engine[k]]]
        /\ UNCHANGED <<parserVars, csvVars, engineVars, files, serviceVars>>

\* lines 187-192: unlink when temp_path is set and the file exists; an
\* OSError of unlink is logged and the file stays
Cleanup ==
    \E i \in 1..Len(requests), unlink \in {"removed", "oserror"} :
        /\ requests[i].pc = "finally"
        /\ LET found == requests[i].temp_path # 0 /\ requests[i].temp_path \in DOMAIN files
           IN  IF found /\ unlink = "removed"
               THEN /\ files' = [q \in DOMAIN files \ {requests[i].temp_path} |-> files[q]]
                    /\ requests' = [requests EXCEPT ![i] =
                           [@ EXCEPT !.pc = "done",
                                     !.unlinked = {files[requests[i].temp_path]}]]
               ELSE /\ found \/ unlink = "removed"
                    /\ files' = files
                    /\ requests' = [requests EXCEPT ![i] = [@ EXCEPT !.pc = "done"]]
        /\ UNCHANGED <<parserVars, csvVars, engineVars, calls, serviceVars>>

NextUpload == Arrive \/ ReadBody \/ SaveTemp \/ Process \/ Cleanup

SpecUpload == Init /\ [][NextUpload]_vars

\* the files in the temporary directory that request i wrote
FilesOf(i) == {p \in DOMAIN files : files[p] = i}

\* C18 as the specification states it: once a request that created its
\* temporary file has completed, on whatever path (success, an HTTP error of
\* the validation, processing, quality or filter stage, an unexpected
\* exception at any step), that file no longer exists; and no request removes
\* a file that another request created.
C18_AsStated ==
    \A i \in 1..Len(requests) :
        /\ (requests[i].pc = "done" /\ requests[i].created # 0) => FilesOf(i) = {}
        /\ requests[i].unlinked \subseteq {i}

\* the engine calls that request i made
CallsOf(i) ==
    LET mine(c) == c.request = i
    IN  SelectSeq(calls, mine)

\* every row is dated inside the bounds given and located in the allow-list given
Filtered(table, req) ==
    \A k \in 1..Len(table.rows) :
        /\ req.date_range_start # <<>> =>
               /\ "session_date" \in DOMAIN table.rows[k]
               /\ ~table.rows[k]["session_date"].nat
               /\ DateLE(req.date_range_start[1], table.rows[k]["session_date"])
        /\ req.date_range_end # <<>> =>
               /\ "session_date" \in DOMAIN table.rows[k]
               /\ ~table.rows[k]["session_date"].nat
               /\ DateLE(table.rows[k]["session_date"], req.date_range_end[1])
        /\ req.location_filter # <<>> =>
               /\ "location_name" \in DOMAIN table.rows[k]
               /\ table.rows[k]["location_name"] \in SeqRange(req.location_filter)

-----------------------------------------------------------------------------
(* Calls on the shared service instances. A DataFrame is an object that its  *)
(* holders reach by reference: a call that assigns a column changes the      *)
(* table of everyone who holds the object. The calls of different requests   *)
(* interleave step by step.                                                  *)

MaxInvocations == 2

\* a DataFrame object: its value now, what its session_date column holds,
\* which call allocated it (0: a caller) and the value it was created with
Object(table, dates, owner) ==
    [table |-> table, dates |-> dates, owner |-> owner, made |-> table]

\* df with no copy taken: the local names the caller's object
Copy_alias(objects, ref, owner) == [heap |-> objects, ref |-> ref]

\* df.copy(): a new object with the same value
Copy(objects, ref, owner) ==
    [heap |-> Append(objects, Object(objects[ref].table, objects[ref].dates, owner)),
     ref |-> Len(objects) + 1]

\* the table with its session_date texts parsed
Timestamps(table) ==
    [columns |-> table.columns,
     rows |-> [i \in 1..Len(table.rows) |->
                  [c \in DOMAIN table.rows[i] |->
                      IF c = "session_date" THEN ToDatetime(table.rows[i][c])
                      ELSE table.rows[i][c]]]]

\* lines 370-373 on the object work names: the columns are assigned in place
NormalizeInPlace(object) ==
    IF object.dates = "object"
    THEN [object EXCEPT !.table = Timestamps(@), !.dates = "datetime64"]
    ELSE object

\* _apply_filters on an object whose dates may still be texts: the mask is
\* computed on parsed dates, the rows kept are the rows as they are
FilterObject(object, req) ==
    LET stamped == IF object.dates = "object" THEN Timestamps(object.table) ELSE object.table
        keep == {i \in 1..Len(stamped.rows) :
                    _apply_filters([columns |-> stamped.columns, rows |-> <<stamped.rows[i]>>],
                                   req).rows # <<>>}
        kept(i) == i \in keep
        picked == SelectSeq([i \in 1..Len(stamped.rows) |-> i], kept)
    IN  [columns |-> object.table.columns,
         rows |-> [k \in 1..Len(picked) |-> object.table.rows[picked[k]]]]

\* analyze_efficiency on an object
AnalyzeObject(object) ==
    analyze_efficiency(IF object.dates = "object" THEN Timestamps(object.table)
                       ELSE object.table)

T_jan05 == <<"2", "0", "2", "4", "-", "0", "1", "-", "0", "5">>
T_feb10 == <<"2", "0", "2", "4", "-", "0", "2", "-", "1", "0">>

\* the tables a caller builds: dates as texts, one or two sessions
ServiceTables ==
    LET home == [session_date |-> T_jan05, energy_added_kwh |-> Dec(10, 0),
                 total_cost |-> Dec(15, 1), location_name |-> <<"H", "o", "m", "e">>]
        work == [session_date |-> T_feb10, energy_added_kwh |-> Dec(10, 0),
                 total_cost |-> Dec(4, 0), location_name |-> <<"W", "o", "r", "k">>]
        columns == <<"session_date", "energy_added_kwh", "total_cost", "location_name">>
    IN  {[columns |-> columns, rows |-> <<home>>],
         [columns |-> columns, rows |-> <<home, work>>]}

ServiceSources == {StringSource(SampleTable), Source("path", FALSE, ".csv", FALSE, <<>>)}

\* a caller builds the table that the calls are given
NewTable ==
    \E table \in ServiceTables :
        /\ heap = <<>> /\ invocations = <<>>
        /\ heap' = Append(heap, Object(table, "object", 0))
        /\ UNCHANGED <<parserVars, csvVars, engineVars, requests, files, calls,
                       cache, invocations>>

Invocation(op, arg, req, pc, work, out) ==
    [op |-> op, arg |-> arg, req |-> req, pc |-> pc, work |-> work, out |-> out]

\* analyze_efficiency(df) up to work = df.copy() (line 367)
BeginAnalyze ==
    \E ref \in 1..Len(heap) :
        /\ heap[ref].owner = 0
        /\ Len(invocations) < MaxInvocations
        /\ \E c \in {Copy(heap, ref, Len(invocations) + 1)} :
               /\ heap' = c.heap
               /\ invocations' = Append(invocations,
                      Invocation("analyze_efficiency", <<ref>>, <<>>, "copied", c.ref, <<>>))
        /\ UNCHANGED <<parserVars, csvVars, engineVars, requests, files, calls, cache>>

\* _apply_filters(df, req) up to out = df.copy() (line 303)
BeginFilter ==
    \E ref \in 1..Len(heap), req \in AnalysisRequests :
        /\ heap[ref].owner = 0
        /\ Len(invocations) < MaxInvocations
        /\ \E c \in {Copy(heap, ref, Len(invocations) + 1)} :
               /\ heap' = c.heap
               /\ invocations' = Append(invocations,
                      Invocation("_apply_filters", <<ref>>, <<req>>, "normalized", c.ref, <<>>))
        /\ UNCHANGED <<parserVars, csvVars, engineVars, requests, files, calls, cache>>

\* process_csv(source) up to the table it read: an object of its own
BeginProcess ==
    \E src \in ServiceSources :
        /\ Len(invocations) < MaxInvocations
        /\ \E read \in {_read_csv_safely(src)} :
               IF read.ok
               THEN /\ heap' = Append(heap, Object(read.val, "object", Len(invocations) + 1))
                    /\ invocations' = Append(invocations,
                           Invocation("process_csv", <<src>>, <<>>, "copied",
                                      Len(heap) + 1, <<>>))
               ELSE /\ heap' = heap
                    /\ invocations' = Append(invocations,
                           Invocation("process_csv", <<src>>, <<>>, "done", 0,
                                      <<process_csv(src).result>>))
        /\ UNCHANGED <<parserVars, csvVars, engineVars, requests, files, calls, cache>>

\* the column assignments: analyze_efficiency lines 370-373 on work,
\* _clean_data lines 279-312 on out
AssignColumns ==
    \E i \in 1..Len(invocations) :
        /\ invocations[i].pc = "copied"
        /\ heap' = [heap EXCEPT ![invocations[i].work] =
               IF invocations[i].op = "analyze_efficiency" THEN NormalizeInPlace(@)
               ELSE IF process_csv(invocations[i].arg[1]).result.data = <<>> THEN @
               ELSE [@ EXCEPT !.table = process_csv(invocations[i].arg[1]).result.data[1],
                              !.dates = "datetime64"]]
        /\ invocations' = [invocations EXCEPT ![i] = [@ EXCEPT !.pc = "normalized"]]
        /\ UNCHANGED <<parserVars, csvVars, engineVars, requests, files, calls, cache>>

\* the rest of the call, computed on the object the local names
Finish ==
    \E i \in 1..Len(invocations) :
        /\ invocations[i].pc = "normalized"
        /\ invocations' = [invocations EXCEPT ![i] =
               [@ EXCEPT !.pc = "done",
                         !.out = <<CASE invocations[i].op = "analyze_efficiency" ->
                                          AnalyzeObject(heap[invocations[i].work])
                                     [] invocations[i].op = "_apply_filters" ->
                                          FilterObject(heap[invocations[i].work],
                                                       invocations[i].req[1])
                                     [] OTHER -> process_csv(invocations[i].arg[1]).result>>]]
        /\ UNCHANGED <<parserVars, csvVars, engineVars, requests, files, calls, heap, cache>>

NextServices ==
    NewTable \/ BeginAnalyze \/ BeginFilter \/ BeginProcess \/ AssignColumns \/ Finish

SpecServices == Init /\ [][NextServices]_vars

\* what the call returns when it runs alone on the table as the caller built it
Alone(inv) ==
    CASE inv.op = "analyze_efficiency" ->
             AnalyzeObject(Object(heap[inv.arg[1]].made, "object", 0))
      [] inv.op = "_apply_filters" ->
             FilterObject(Object(heap[inv.arg[1]].made, "object", 0), inv.req[1])
      [] OTHER -> process_csv(inv.arg[1]).result

\* C17: calls interleaved in any order on the shared service instances give
\* the results of the same calls run one after another: every call works on
\* an object of its own, a caller's table keeps the value it was built with,
\* and the calculator's cache, the only instance state, is neither read nor
\* written.
C17_Isolated ==
    /\ \A ref \in 1..Len(heap) :
           heap[ref].owner = 0 =>
               heap[ref].table = heap[ref].made /\ heap[ref].dates = "object"
    /\ \A i \in 1..Len(invocations) :
           /\ invocations[i].work # 0 =>
                  /\ heap[invocations[i].work].owner = i
                  /\ \A j \in 1..Len(invocations) : j # i =>
                         invocations[j].work # invocations[i].work
           /\ invocations[i].pc = "done" => invocations[i].out = <<Alone(invocations[i])>>
    /\ cache = <<>>

\* two calls of analyze_efficiency on one caller's table, the second begun
\* before the first assigned its columns, both finished
C17_Witness ==
    /\ Len(invocations) = 2
    /\ invocations[1].op = "analyze_efficiency" /\ invocations[2].op = "analyze_efficiency"
    /\ invocations[1].arg = invocations[2].arg
    /\ invocations[1].pc = "done" /\ invocations[2].pc = "done"
    /\ heap[invocations[1].work].dates = "datetime64"
    /\ heap[invocations[1].arg[1]].dates = "object"

-----------------------------------------------------------------------------
(* analyze_charging_patterns on tables of valid sessions with a date column, *)
(* as analyze_efficiency hands them over: some dates may be NaT.             *)

MaxPatternRows == 3

PatternTables ==
    {[columns |-> DatedColumns, rows |-> rows] :
        rows \in UNION {[1..n -> SeqRange(TrendKinds)] : n \in 1..MaxPatternRows}}

\* one call of analyze_charging_patterns on the shared calculator
AnalyzePatterns ==
    \E table \in PatternTables :
        /\ pattern = NoPattern
        /\ df' = table
        /\ pattern' = [called |-> TRUE, out |-> analyze_charging_patterns(table.rows)]
        /\ UNCHANGED <<parserVars, csvVars, analysis, metric, trends, category, savings, routerVars>>

NextPatterns == AnalyzePatterns

SpecPatterns == Init /\ [][NextPatterns]_vars

\* the sessions of the table dated on a Saturday or Sunday, and those dated
\* Monday to Friday
WeekendSessions ==
    {i \in 1..Len(df.rows) :
        ~df.rows[i]["session_date"].nat /\ DayOfWeek(df.rows[i]["session_date"]) \in {5, 6}}

WeekdaySessions ==
    {i \in 1..Len(df.rows) :
        ~df.rows[i]["session_date"].nat /\ DayOfWeek(df.rows[i]["session_date"]) \in 0..4}

\* C21 as the specification states it: the weekend/weekday ratio is the number
\* of sessions dated on a Saturday or Sunday over the number of sessions dated
\* Monday to Friday, and 1.0 when no session is dated on a weekday; a session
\* counts as a weekday session only if its date falls on a weekday.
C21_AsStated ==
    pattern # NoPattern =>
        LET weekend == Cardinality(WeekendSessions)
            weekday == Cardinality(WeekdaySessions)
        IN  IF weekday = 0
            THEN pattern.out.weekend_vs_weekday_ratio = [num |-> 1, den |-> 1]
            ELSE pattern.out.weekend_vs_weekday_ratio.num * weekday
                     = weekend * pattern.out.weekend_vs_weekday_ratio.den

-----------------------------------------------------------------------------
(* categorize_charger_type called on its own: a text hint, an energy and a   *)
(* duration (None, NaN, zero, negative or a number of minutes).              *)

T_dc_supercharger == <<"D", "C", " ", "S", "u", "p", "e", "r", "c", "h", "a", "r", "g", "e", "r">>
T_home_dc == <<"H", "o", "m", "e", " ", "D", "C">>
T_ac_garage == <<"A", "C", " ", "g", "a", "r", "a", "g", "e">>
T_level2 == <<"L", "e", "v", "e", "l", " ", "2">>
T_v3 == <<"V", "3">>

ChargerHints == ChargerCells \cup {T_dc_supercharger, T_home_dc, T_ac_garage, T_level2, T_v3}

\* energies in kWh: at 30 minutes they give 15, 16, 80, 82, 120 and 122 kW
HintEnergies == {NaN, Dec(0, 0), Dec(75, 1), Dec(8, 0), Dec(40, 0), Dec(41, 0),
                 Dec(60, 0), Dec(61, 0)}

HintDurations == {<<>>, <<NaN>>, <<Dec(0, 0)>>, <<Dec(-30, 0)>>, <<Dec(30, 0)>>}

\* one call of categorize_charger_type
Categorize ==
    \E info \in ChargerHints, energy \in HintEnergies, duration \in HintDurations :
        /\ category = NoCategory
        /\ category' = [called |-> TRUE, charger_info |-> info, energy_kwh |-> energy,
                        duration_minutes |-> duration,
                        out |-> categorize_charger_type(info, energy, duration)]
        /\ UNCHANGED <<parserVars, csvVars, df, analysis, metric, trends, pattern, savings, routerVars>>

NextCategorize == Categorize

SpecCategorize == Init /\ [][NextCategorize]_vars

\* the text rules in the order the specification gives them
TextRules ==
    <<[words |-> SuperchargerWords, label |-> "supercharger"],
      [words |-> DcFastWords, label |-> "dc_fast"],
      [words |-> HomeWords, label |-> "home_ac"],
      [words |-> PublicWords, label |-> "public_ac"]>>

\* the rules that match the text of the call
MatchingRules ==
    LET lowered == IF category.charger_info = Missing THEN <<>>
                   ELSE Lower(category.charger_info)
    IN  {k \in 1..Len(TextRules) : \E w \in TextRules[k].words : ReSearch(w, lowered)}

\* energy > 0 and the duration is known and > 0
PowerKnown ==
    /\ DecPos(category.energy_kwh)
    /\ category.duration_minutes # <<>>
    /\ DecPos(category.duration_minutes[1])

\* energy * 60 / duration as a fraction
PowerKw == Ratio(DecMulInt(category.energy_kwh, 60), category.duration_minutes[1])

\* C22: the first matching text rule in the order SUPERCHARGER, DC_FAST,
\* HOME_AC, PUBLIC_AC decides whatever the energy and the duration are; when no
\* text rule matches and energy > 0 and the duration is known and > 0 the
\* category follows the power energy * 60 / duration with strict thresholds
\* (above 120 supercharger, above 80 dc_fast, above 15 public_ac, else home_ac,
\* so exactly 120 is dc_fast, exactly 80 public_ac, exactly 15 home_ac); in
\* every remaining case the result is unknown.
C22_FallbackChain ==
    category # NoCategory =>
        IF MatchingRules # {}
        THEN \E k \in MatchingRules :
                /\ \A j \in MatchingRules : k <= j
                /\ category.out = TextRules[k].label
        ELSE IF PowerKnown
        THEN category.out =
                (IF PowerKw.num > 120 * PowerKw.den THEN "supercharger"
                 ELSE IF PowerKw.num > 80 * PowerKw.den THEN "dc_fast"
                 ELSE IF PowerKw.num > 15 * PowerKw.den THEN "public_ac"
                 ELSE "home_ac")
        ELSE category.out = "unknown"

\* a call without a text match whose power is exactly 120 kW, rated dc_fast
C22_Witness ==
    /\ category # NoCategory
    /\ MatchingRules = {}
    /\ PowerKnown
    /\ PowerKw = [num |-> 120, den |-> 1]
    /\ category.out = "dc_fast"

-----------------------------------------------------------------------------
(* Binary64 arithmetic on positive normal numbers, round to nearest even.    *)
(* A value is mant * 2^exp with 2^52 <= mant < 2^53; a mantissa, a remainder *)
(* or an aligned sum is a wide number hi * 2^27 + lo with 0 <= lo < 2^27.    *)

Limb == 2 ^ 27

Wide(n) == [hi |-> n \div Limb, lo |-> n % Limb]
WideDouble(w) == [hi |-> 2 * w.hi + (2 * w.lo) \div Limb, lo |-> (2 * w.lo) % Limb]
WideHalve(w) == [hi |-> w.hi \div 2, lo |-> w.lo \div 2 + (w.hi % 2) * (Limb \div 2)]
WideOdd(w) == w.lo % 2 = 1
WideGE(a, b) == a.hi > b.hi \/ (a.hi = b.hi /\ a.lo >= b.lo)
WideAdd(a, b) ==
    [hi |-> a.hi + b.hi + (a.lo + b.lo) \div Limb, lo |-> (a.lo + b.lo) % Limb]
WideSub(a, b) ==
    IF a.lo >= b.lo THEN [hi |-> a.hi - b.hi, lo |-> a.lo - b.lo]
    ELSE [hi |-> a.hi - b.hi - 1, lo |-> a.lo + Limb - b.lo]

TwoTo52 == [hi |-> 2 ^ 25, lo |-> 0]
TwoTo53 == [hi |-> 2 ^ 26, lo |-> 0]
TwoTo55 == [hi |-> 2 ^ 28, lo |-> 0]

\* the 53 leading bits q of a result and the exponent of their last place,
\* rounded by the next bit (guard) and whether anything follows it (sticky)
RoundNearestEven(q, exp, guard, sticky) ==
    LET up == guard /\ (sticky \/ WideOdd(q))
        m == IF up THEN WideAdd(q, Wide(1)) ELSE q
    IN  IF m = TwoTo53 THEN [mant |-> TwoTo52, exp |-> exp + 1]
        ELSE [mant |-> m, exp |-> exp]

\* w doubled k times; the work is halved at each level so that the nesting
\* stays shallow
RECURSIVE Doubled(_, _)
Doubled(w, k) ==
    IF k = 0 THEN w
    ELSE IF k = 1 THEN WideDouble(w)
    ELSE Only({Doubled(part, k - k \div 2) : part \in {Doubled(w, k \div 2)}})

\* the number of binary digits of n
RECURSIVE BitLength(_)
BitLength(n) == IF n = 0 THEN 0 ELSE 1 + BitLength(n \div 2)

\* float(n) of a whole number 0 < n < 2^31: exact
FloatOfInt(n) ==
    Only({[mant |-> Doubled(Wide(n), up), exp |-> 0 - up] : up \in {53 - BitLength(n)}})

\* one step of long division by b: the remainder r < b is doubled and b taken
\* off when it fits, the bit joining the quotient q
DivideStep(d) ==
    LET r2 == WideDouble(d.r)
        bit == WideGE(r2, d.b)
    IN  [q |-> IF bit THEN WideAdd(WideDouble(d.q), Wide(1)) ELSE WideDouble(d.q),
         r |-> IF bit THEN WideSub(r2, d.b) ELSE r2,
         b |-> d.b]

RECURSIVE DivideSteps(_, _)
DivideSteps(d, k) ==
    IF k = 1 THEN DivideStep(d)
    ELSE Only({DivideSteps(next, k - k \div 2) : next \in {DivideSteps(d, k \div 2)}})

\* dividend / divisor of two values
Quotient(dividend, divisor) ==
    LET whole == WideGE(dividend.mant, divisor.mant)
        steps == IF whole
                 THEN DivideSteps([q |-> Wide(1), r |-> WideSub(dividend.mant, divisor.mant),
                                   b |-> divisor.mant], 52)
                 ELSE DivideSteps([q |-> Wide(0), r |-> dividend.mant, b |-> divisor.mant], 53)
    IN  Only({RoundNearestEven(last.q,
                               dividend.exp - divisor.exp - (IF whole THEN 52 ELSE 53),
                               WideGE(WideDouble(last.r), divisor.mant),
                               WideDouble(last.r) # divisor.mant /\ last.r # Wide(0)) :
                 last \in {steps}})

\* num / den
FloatDiv(num, den) == Only({Quotient(nv, dv) : nv \in {num}, dv \in {den}})

\* part.w shifted right by so many places, remembering whether a one was
\* shifted out
HalveStep(part) == [w |-> WideHalve(part.w), lost |-> part.lost \/ WideOdd(part.w)]

RECURSIVE ShiftRight(_, _)
ShiftRight(part, places) ==
    IF places = 0 THEN part
    ELSE IF places = 1 THEN HalveStep(part)
    ELSE Only({ShiftRight(halved, places - places \div 2) :
                  halved \in {ShiftRight(part, places \div 2)}})

\* the sum of the aligned mantissas, rounded
Rounded(shifted, wide, bigexp) ==
    LET carry == WideGE(wide, TwoTo55)
        t == IF carry THEN WideHalve(wide) ELSE wide
    IN  RoundNearestEven(WideHalve(WideHalve(t)), bigexp + (IF carry THEN 1 ELSE 0),
                         WideOdd(WideHalve(t)),
                         WideOdd(t) \/ shifted.lost \/ (carry /\ WideOdd(wide)))

\* augend + addend of two values: the mantissas are aligned with two extra
\* places below the larger one
Total(augend, addend) ==
    LET big == IF augend.exp >= addend.exp THEN augend ELSE addend
        small == IF augend.exp >= addend.exp THEN addend ELSE augend
        apart == big.exp - small.exp
        aligned == ShiftRight([w |-> WideDouble(WideDouble(small.mant)), lost |-> FALSE],
                              IF apart > 56 THEN 56 ELSE apart)
    IN  Only({Only({Rounded(al, sum, big.exp) :
                       sum \in {WideAdd(WideDouble(WideDouble(big.mant)), al.w)}}) :
                 al \in {aligned}})

\* left + right
FloatAdd(left, right) == Only({Total(lv, rv) : lv \in {left}, rv \in {right}})

\* lesser < greater
FloatLess(lesser, greater) ==
    \/ lesser.exp < greater.exp
    \/ lesser.exp = greater.exp /\ ~WideGE(lesser.mant, greater.mant)

\* the double nearest to a positive decimal of up to nine digits and nine
\* decimal places: both m and 10^s are doubles, and their quotient is rounded once
FloatOfDec(dec) ==
    IF dec.s <= 0 THEN FloatOfInt(dec.m * Pow10(0 - dec.s))
    ELSE FloatDiv(FloatOfInt(dec.m), FloatOfInt(Pow10(dec.s)))

\* Series.sum() of up to seven doubles: added from left to right
RECURSIVE FloatSum(_)
FloatSum(floats) ==
    IF Len(floats) = 1 THEN floats[1]
    ELSE Only({FloatAdd(before, floats[Len(floats)]) :
                  before \in {FloatSum(SubSeq(floats, 1, Len(floats) - 1))}})

-----------------------------------------------------------------------------
(* The savings estimate: the rates of lines 399-418 as binary64 computes     *)
(* them, beside their exact values, and the sign of line 343's difference.   *)

MaxSavingsRows == 2

\* sessions as (energy_added_kwh, total_cost): 5 and 5.3 kWh at 0.40 $/kWh,
\* 10 kWh at 0.15 and at 0.40 $/kWh
SavingsSessions ==
    {<<Dec(5, 0), Dec(2, 0)>>, <<Dec(53, 1), Dec(212, 2)>>,
     <<Dec(10, 0), Dec(15, 1)>>, <<Dec(10, 0), Dec(4, 0)>>}

SavingsHints == {Missing, <<"H", "o", "m", "e">>, <<"C", "H", "A", "d", "e", "M", "O">>}

SavingsRows ==
    {[energy_added_kwh |-> k[1], total_cost |-> k[2], charger_type |-> h] :
        k \in SavingsSessions, h \in SavingsHints}

SavingsTables ==
    {[columns |-> <<"energy_added_kwh", "total_cost", "charger_type">>, rows |-> rows] :
        rows \in UNION {[1..n -> SavingsRows] : n \in 1..MaxSavingsRows}}

\* float(Series.sum()) of a column of positive numbers
FloatColumnSum(rows, c) == FloatSum([i \in 1..Len(rows) |-> FloatOfDec(rows[i][c])])

\* cost_per_kwh of calculate_efficiency_metrics on the sums of the rows
FloatRate(rows) ==
    FloatDiv(FloatColumnSum(rows, "total_cost"), FloatColumnSum(rows, "energy_added_kwh"))

\* lines 399-402 and 404-418: the overall cost_per_kwh and the one of every
\* category, as binary64 values
FloatRates(work) ==
    [overall |-> FloatRate(work),
     by_type |-> [ct \in {work[i]["charger_type_category"] : i \in 1..Len(work)} |->
                     FloatRate(TypeRows(work, ct))]]

\* the same rates as exact fractions
ExactRates(work) ==
    [overall |-> calculate_efficiency_metrics(SumColumn(work, "energy_added_kwh"),
                                              SumColumn(work, "total_cost"),
                                              <<>>).val.cost_per_kwh,
     by_type |-> Only({[ct \in DOMAIN by |-> by[ct].cost_per_kwh] :
                          by \in {ByChargerType(work)}})]

\* lines 341-343: best is the lowest category rate, and max(0.0, current - best)
\* is positive when current > best, 0.0 when they are equal and 0.0 by the
\* clamp when current < best; the factors of lines 346-347 are positive
SavingsPerKwh(rates) ==
    LET best == CHOOSE r \in {rates.by_type[ct] : ct \in DOMAIN rates.by_type} :
                    \A ct \in DOMAIN rates.by_type : ~FloatLess(rates.by_type[ct], r)
    IN  IF FloatLess(best, rates.overall) THEN "positive"
        ELSE IF FloatLess(rates.overall, best) THEN "clamped"
        ELSE "zero"

\* _annual_savings_potential on the EfficiencyAnalysis that line 455 builds
\* from a table whose rows are all valid
EstimateSavings ==
    \E table \in SavingsTables :
        /\ savings = NoSavings
        /\ df' = table
        /\ \E work \in {Categorized(table.rows)} :
               \E computed \in {FloatRates(work)} :
                   savings' = [called |-> TRUE,
                               exact |-> ExactRates(work),
                               computed |-> computed,
                               per_kwh |-> SavingsPerKwh(computed)]
        /\ UNCHANGED <<parserVars, csvVars, analysis, metric, trends, pattern, category,
                       routerVars>>

NextSavings == EstimateSavings

SpecSavings == Init /\ [][NextSavings]_vars

\* C23 as the specification states it, of the rates the program computes: the
\* lowest category rate is <= the overall rate <= the highest category rate,
\* so the savings estimate is never clamped by its max(0, .) and is 0 only
\* when every category has the same rate as the overall
C23_AsStated ==
    savings # NoSavings =>
        LET rate == savings.computed.by_type
            overall == savings.computed.overall
        IN  /\ \E ct \in DOMAIN rate : ~FloatLess(overall, rate[ct])
            /\ \E ct \in DOMAIN rate : ~FloatLess(rate[ct], overall)
            /\ savings.per_kwh # "clamped"
            /\ savings.per_kwh # "positive" => \A ct \in DOMAIN rate : rate[ct] = overall

\* C23: whenever the by-charger-type breakdown is non-empty, the exact
\* quotients satisfy lowest category rate <= overall rate <= highest category
\* rate (every valid row belongs to exactly one emitted category, so the
\* overall rate is an energy-weighted mean of the category rates); the savings
\* estimate is positive exactly when some computed category rate is below the
\* computed overall rate, and 0 otherwise
C23_WeightedMean ==
    savings # NoSavings =>
        LET rate == savings.exact.by_type
            overall == savings.exact.overall
        IN  /\ DOMAIN rate = DOMAIN savings.computed.by_type
            /\ \E ct \in DOMAIN rate : ~QLess(overall, rate[ct])
            /\ \E ct \in DOMAIN rate : ~QLess(rate[ct], overall)
            /\ savings.per_kwh = "positive"
                   <=> \E ct \in DOMAIN rate :
                           FloatLess(savings.computed.by_type[ct], savings.computed.overall)

\* two categories at the same exact rate whose computed overall rate is
\* below both computed category rates: the estimate is clamped to 0
C23_Witness ==
    /\ savings # NoSavings
    /\ Cardinality(DOMAIN savings.exact.by_type) = 2
    /\ \A ct \in DOMAIN savings.exact.by_type :
           savings.exact.by_type[ct] = savings.exact.overall
    /\ savings.per_kwh = "clamped"

-----------------------------------------------------------------------------
(* The generic format and the fuzzy column mapper *)

\* the call read a table whose headers the detector classifies as generic
GenericFile == ReadTable /\ _detect_format(source.content[1].columns) = Return("generic")

\* the source columns a mapping renames to a canonical target
ClaimedFor(mapping, target) == {h \in DOMAIN mapping : mapping[h] = target}

\* the structure validation reported the canonical column c as missing
ReportedMissing(c) ==
    \E i \in 1..Len(result.issues) :
        /\ result.issues[i].msg = "Missing required columns"
        /\ c \in SeqRange(result.issues[i].detail)

\* the header contains cost, price or fee, whatever the case of its letters
CostLike(h) == \E k \in {P_cost, P_price, P_fee} : InLower(k, h)

\* C24 as the specification states it: for every header set classified as
\* generic the fuzzy mapper renames one source column to energy_added_kwh and
\* a different one to total_cost, each target claiming at most one column, so
\* the structure validation never reports energy or cost as missing
C24_AsStated ==
    (Called /\ GenericFile) =>
        \A mapping \in {_fuzzy_map(source.content[1].columns)} :
            /\ \E e, c \in DOMAIN mapping :
                   e # c /\ mapping[e] = "energy_added_kwh" /\ mapping[c] = "total_cost"
            /\ \A k \in 1..Len(FuzzyRules) :
                   Cardinality(ClaimedFor(mapping, FuzzyRules[k].target)) <= 1
            /\ ~ReportedMissing("energy_added_kwh")
            /\ ~ReportedMissing("total_cost")

\* C24: for every header set classified as generic the fuzzy mapper renames
\* exactly one source column to energy_added_kwh and at most one, different,
\* source column to total_cost, each target claiming at most one column; a
\* column is renamed to total_cost exactly when a column other than the energy
\* column contains cost, price or fee, and otherwise the structure validation
\* reports total_cost as missing; energy_added_kwh is never reported missing
C24_GenericMapping ==
    (Called /\ GenericFile) =>
        \A mapping \in {_fuzzy_map(source.content[1].columns)} :
            LET energy == ClaimedFor(mapping, "energy_added_kwh")
                cost == ClaimedFor(mapping, "total_cost")
            IN  /\ Cardinality(energy) = 1
                /\ \A k \in 1..Len(FuzzyRules) :
                       Cardinality(ClaimedFor(mapping, FuzzyRules[k].target)) <= 1
                /\ cost # {} <=> \E h \in Headers \ energy : CostLike(h)
                /\ ReportedMissing("total_cost") <=> cost = {}
                /\ ~ReportedMissing("energy_added_kwh")

\* a file with the headers kWh and Charger Type: generic by the words kwh and
\* charge, no column renamed to total_cost, the validation reports it missing
C24_Witness ==
    /\ Called /\ GenericFile
    /\ Headers = {"kWh", "Charger Type"}
    /\ ClaimedFor(_fuzzy_map(source.content[1].columns), "total_cost") = {}
    /\ ReportedMissing("total_cost")

-----------------------------------------------------------------------------
(* The quality of a table without optional columns *)

\* the table process_csv returned has none of the optional canonical columns
NoOptional ==
    SeqRange(result.data[1].columns) \cap SeqRange(OPTIONAL_COLUMNS) = {}

\* the rows of the returned table whose session_date is NaT
Undated == {r \in 1..Len(result.data[1].rows) : result.data[1].rows[r]["session_date"].nat}

\* upload_charging_data on a temporary file with the content of the source:
\* whatever the filters asked for, the answer is 422 and the engine is not run
Rejected ==
    \A req \in AnalysisRequests :
        \E out \in {UploadBody("valid", Source("path", TRUE, ".csv", FALSE, source.content),
                               req)} :
            out.response.status = 422 /\ out.engine = <<>>

=============================================================================
